---- MODULE Spec2Model ----
(***************************************************************************)
(* Presence and signaling coordination of private-network-registry:        *)
(* the presence store (Device collection), the channel store               *)
(* (SignalingChannel collection), the WebSocket signaling relay            *)
(* (SignalingServer) and the background jobs (BackgroundJobs).             *)
(*                                                                         *)
(* Time is counted in minutes.  A string the code inspects character by    *)
(* character (a device identifier, a channel key) is a sequence of         *)
(* one-character strings; other strings are TLA+ strings.                  *)
(***************************************************************************)
EXTENDS Integers, Sequences, FiniteSets, TLC

VARIABLES
    now,                \* the clock, Date.now(), in minutes
    devices,            \* Device collection: deviceId -> presence record
    channels,           \* SignalingChannel collection: channelId -> channel record
    activeConnections,  \* SignalingServer.activeConnections: deviceId -> socket
    sockets,            \* every WebSocket the server has accepted, in order
    minCoordinators,    \* process.env.MIN_COORDINATORS_PER_NETWORK, parsed
    last,               \* the operation that ran last, with its response
    expected,           \* history: per destination, the messages stored for it since its last drain
    trimmed,            \* history: destinations that lost a stored message to the cleanup job since their last drain
    expired,            \* history: destinations that lost a stored message to the channel TTL since their last drain
    sends,              \* history: number of inbound frames handled so far
    ticks,              \* history: number of clock advances so far
    draining,           \* the drain request in progress, between its read and its response
    cleaning,           \* the signaling cleanup pass in progress, between its read and its last save
    backgroundJobs      \* the BackgroundJobs instance: its three timer handles, and the timers the runtime holds

vars == << now, devices, channels, activeConnections, sockets, minCoordinators,
           last, expected, trimmed, expired, sends, ticks, draining, cleaning, backgroundJobs >>

----------------------------------------------------------------------------
(* Strings as sequences of characters *)

\* UTF-16 code units of the characters the model uses (Array.prototype.sort
\* compares strings by code unit).
CharCode ==
    [ c \in {"-", "0", "1", "2", "3", "4", "5", "6", "7", "8", "9", "_", "a", "b", "c", "d", "e", "f", "g", "h", "p", "r", "x"} |->
        CASE c = "-" -> 45
          [] c = "0" -> 48
          [] c = "1" -> 49
          [] c = "2" -> 50
          [] c = "3" -> 51
          [] c = "4" -> 52
          [] c = "5" -> 53
          [] c = "6" -> 54
          [] c = "7" -> 55
          [] c = "8" -> 56
          [] c = "9" -> 57
          [] c = "_" -> 95
          [] c = "a" -> 97
          [] c = "b" -> 98
          [] c = "c" -> 99
          [] c = "d" -> 100
          [] c = "e" -> 101
          [] c = "f" -> 102
          [] c = "g" -> 103
          [] c = "h" -> 104
          [] c = "p" -> 112
          [] c = "r" -> 114
          [] c = "x" -> 120 ]

\* [a-zA-Z0-9_]
WordChar(c) ==
    \/ CharCode[c] = 95
    \/ CharCode[c] >= 48 /\ CharCode[c] <= 57
    \/ CharCode[c] >= 65 /\ CharCode[c] <= 90
    \/ CharCode[c] >= 97 /\ CharCode[c] <= 122

PeerPrefix == << "p", "e", "e", "r", "_" >>

\* /^peer_[a-zA-Z0-9_]+$/.test(deviceId)
isValidDeviceId(deviceId) ==
    /\ Len(deviceId) > Len(PeerPrefix)
    /\ SubSeq(deviceId, 1, Len(PeerPrefix)) = PeerPrefix
    /\ \A i \in (Len(PeerPrefix) + 1)..Len(deviceId) : WordChar(deviceId[i])

\* a < b in the order Array.prototype.sort uses by default (code units,
\* a proper prefix first)
RECURSIVE StrLess(_, _)
StrLess(a, b) ==
    IF b = << >> THEN FALSE
    ELSE IF a = << >> THEN TRUE
    ELSE IF CharCode[Head(a)] # CharCode[Head(b)]
         THEN CharCode[Head(a)] < CharCode[Head(b)]
         ELSE StrLess(Tail(a), Tail(b))

\* a variant of generateChannelId that joins the identifiers as given
generateChannelId_Directed(deviceId1, deviceId2) == deviceId1 \o << "_" >> \o deviceId2

\* generateChannelId: [deviceId1, deviceId2].sort(), then `${s[0]}_${s[1]}`
generateChannelId(deviceId1, deviceId2) ==
    IF StrLess(deviceId2, deviceId1)
    THEN deviceId2 \o << "_" >> \o deviceId1
    ELSE deviceId1 \o << "_" >> \o deviceId2

\* The device identifiers the model's clients use.
PeerA == << "p", "e", "e", "r", "_", "a" >>
PeerB == << "p", "e", "e", "r", "_", "b" >>
PeerC == << "p", "e", "e", "r", "_", "c" >>
PeerD == << "p", "e", "e", "r", "_", "d" >>
PeerE == << "p", "e", "e", "r", "_", "e" >>
PeerF == << "p", "e", "e", "r", "_", "f" >>
PeerG == << "p", "e", "e", "r", "_", "g" >>
PeerH == << "p", "e", "e", "r", "_", "h" >>
\* not a device identifier: '-' is outside the pattern
BadId == << "p", "e", "e", "r", "-", "x" >>

----------------------------------------------------------------------------
(* Program constants, in minutes *)

OnlineWindow == 10          \* lastSeen window of the sweep and of the peer list
DeviceTTL == 10             \* Device.expiresAt = now + 10 minutes
ChannelTTL == 60            \* SignalingChannel.expiresAt = now + 1 hour
CoordinatorWindow == 60     \* findPeer: coordinators seen in the last hour
PurgeAge == 1440            \* the sweep deletes offline records older than 24 hours
maxCoordinators == 5
CoordinatorLimit == 5       \* findPeer: .limit(5)
PeerLimit == 100            \* peer list: .limit(100)
SaveCap == 50               \* pre('save'): more than 50 messages ...
SaveKeep == 25              \* ... keep the last 25
CleanupKeep == 10           \* cleanupSignalingChannels keeps the last 10

\* NetworkMember collection (maintained by the membership routes, which are
\* outside this model): the active memberships.
ActiveMembers ==
    { << "net1", "alice" >>, << "net1", "bob" >>, << "net2", "carol" >>, << "net2", "alice" >> }

\* a variant of IsActiveMember that finds a membership for every user
IsActiveMember_Anyone(networkId, username) == TRUE

\* NetworkMember.findOne({ networkId, username, isActive: true })
IsActiveMember(networkId, username) == << networkId, username >> \in ActiveMembers

----------------------------------------------------------------------------
(* Helpers *)

Min(a, b) == IF a < b THEN a ELSE b

\* Array.prototype.filter
RECURSIVE SelectSeq2(_, _, _)
SelectSeq2(s, Keep(_, _), arg) ==
    IF s = << >> THEN << >>
    ELSE IF Keep(Head(s), arg)
         THEN << Head(s) >> \o SelectSeq2(Tail(s), Keep, arg)
         ELSE SelectSeq2(Tail(s), Keep, arg)

\* a variant of LastN that keeps the first n elements
LastN_First(s, n) == IF Len(s) <= n THEN s ELSE SubSeq(s, 1, n)

\* Array.prototype.slice(-n), n > 0
LastN(s, n) == IF Len(s) <= n THEN s ELSE SubSeq(s, Len(s) - n + 1, Len(s))

\* the subsets of S with n elements, for n <= Cardinality(S)
RECURSIVE Pick(_, _)
Pick(S, n) ==
    IF n = 0 THEN { {} }
    ELSE UNION { { T \cup { x } : T \in Pick(S \ { x }, n - 1) } : x \in S }

\* the subsets of S a query with .limit(n) and no sort can return: S itself
\* when it has at most n elements, any n of its elements otherwise
Limit(S, n) ==
    IF Cardinality(S) <= n THEN { S }
    ELSE IF n <= Cardinality(S) - n THEN Pick(S, n)
    ELSE { S \ D : D \in Pick(S, Cardinality(S) - n) }

NoOp == [ op |-> "none" ]

\* no drain request, no cleanup pass is in progress
Idle == [ stage |-> "idle" ]

\* the timers start() creates when n timers have been created before
NewTimers(n) ==
    { [ id |-> n + 1, job |-> "cleanupStalePresence" ],
      [ id |-> n + 2, job |-> "ensureCoordinators" ],
      [ id |-> n + 3, job |-> "cleanupSignalingChannels" ] }

\* BackgroundJobs.start() on the instance jobs: three setInterval calls, each
\* handle assigned to its field.  The runtime keeps a timer until
\* clearInterval is called with its handle.  0 stands for null.
Started(jobs) ==
    [ presenceCleanupInterval |-> jobs.created + 1,
      coordinatorCheckInterval |-> jobs.created + 2,
      signalingCleanupInterval |-> jobs.created + 3,
      active |-> jobs.active \cup NewTimers(jobs.created),
      created |-> jobs.created + 3 ]

\* new BackgroundJobs(): the fields are null, then the constructor calls start()
Constructed ==
    Started([ presenceCleanupInterval |-> 0, coordinatorCheckInterval |-> 0,
              signalingCleanupInterval |-> 0, active |-> {}, created |-> 0 ])

----------------------------------------------------------------------------
(* Presence store *)

\* The record POST /network/:networkId/announce writes at time `at`.  The bookkeeping
\* timestamps createdAt and updatedAt are read by no operation and are left out.
AnnouncedDevice(peerId, username, networkId, signalAddress, capabilities, at) ==
    [ deviceId |-> peerId,
      userId |-> username,
      networkId |-> networkId,
      signalAddress |-> signalAddress,
      capabilities |-> capabilities,
      isCoordinator |-> "coordinator" \in capabilities,
      lastSeen |-> at,
      isOnline |-> TRUE,
      expiresAt |-> at + DeviceTTL ]

\* collection.findOneAndUpdate({ key }, { $set: doc }, { upsert: true })
Upsert(coll, key, doc) ==
    [ k \in DOMAIN coll \cup { key } |-> IF k = key THEN doc ELSE coll[k] ]

\* collection.deleteMany: the documents with a key in gone are removed
Remove(coll, gone) == [ k \in DOMAIN coll \ gone |-> coll[k] ]

History == << expected, trimmed, expired, sends, ticks >>

\* POST /network/:networkId/announce by the authenticated user `username`
Announce(username, networkId, peerId, signalAddress, capabilities) ==
    /\ isValidDeviceId(peerId)
    /\ capabilities \subseteq { "relay", "store", "coordinator" }
    /\ IF ~IsActiveMember(networkId, username)
       THEN /\ last' = [ op |-> "announce", status |-> 403, deviceId |-> peerId ]
            /\ UNCHANGED devices
       ELSE /\ devices' = Upsert(devices, peerId,
                    AnnouncedDevice(peerId, username, networkId, signalAddress, capabilities, now))
            /\ last' = [ op |-> "announce", status |-> 200, deviceId |-> peerId ]
    /\ UNCHANGED << now, channels, activeConnections, sockets, minCoordinators, History,
                    draining, cleaning, backgroundJobs >>

\* Device.find({ networkId, isOnline: true, lastSeen: { $gte: now - 10 min } })
OnlinePeers(store, networkId) ==
    { d \in DOMAIN store :
        /\ store[d].networkId = networkId
        /\ store[d].isOnline
        /\ store[d].lastSeen >= now - OnlineWindow }

\* .sort({ lastSeen: -1 }).limit(100): the result sets the query can return
\* (ties in lastSeen are in no particular order)
PeerLists(store, networkId) ==
    { T \in Limit(OnlinePeers(store, networkId), PeerLimit) :
        \A x \in T, y \in OnlinePeers(store, networkId) \ T :
            store[x].lastSeen >= store[y].lastSeen }

\* GET /network/:networkId/peers
ListPeers(username, networkId) ==
    /\ IF ~IsActiveMember(networkId, username)
       THEN last' = [ op |-> "peers", status |-> 403, networkId |-> networkId, peers |-> {} ]
       ELSE \E T \in PeerLists(devices, networkId) :
                last' = [ op |-> "peers", status |-> 200, networkId |-> networkId, peers |-> T ]
    /\ UNCHANGED << now, devices, channels, activeConnections, sockets, minCoordinators, History,
                    draining, cleaning, backgroundJobs >>

\* Device.findOne({ userId, networkId, isOnline: true })
OnlineDevicesOf(store, networkId, userId) ==
    { d \in DOMAIN store :
        /\ store[d].userId = userId
        /\ store[d].networkId = networkId
        /\ store[d].isOnline }

\* a variant of LastCoordinators that does not filter on the network
LastCoordinators_AnyNetwork(store, networkId) ==
    Limit({ d \in DOMAIN store :
              /\ store[d].isCoordinator
              /\ store[d].lastSeen >= now - CoordinatorWindow },
          CoordinatorLimit)

\* Device.find({ networkId, isCoordinator: true, lastSeen: { $gte: now - 1 h } }).limit(5)
LastCoordinators(store, networkId) ==
    Limit({ d \in DOMAIN store :
              /\ store[d].networkId = networkId
              /\ store[d].isCoordinator
              /\ store[d].lastSeen >= now - CoordinatorWindow },
          CoordinatorLimit)

\* GET /network/:networkId/peer/:userId
FindPeer(username, networkId, userId) ==
    /\ IF ~IsActiveMember(networkId, username)
       THEN last' = [ op |-> "findPeer", status |-> 403, networkId |-> networkId,
                      userId |-> userId, online |-> FALSE, device |-> << >>,
                      lastCoordinators |-> {} ]
       ELSE IF OnlineDevicesOf(devices, networkId, userId) = {}
       THEN \E T \in LastCoordinators(devices, networkId) :
                last' = [ op |-> "findPeer", status |-> 200, networkId |-> networkId,
                          userId |-> userId, online |-> FALSE, device |-> << >>,
                          lastCoordinators |-> T ]
       ELSE \E d \in OnlineDevicesOf(devices, networkId, userId) :
                last' = [ op |-> "findPeer", status |-> 200, networkId |-> networkId,
                          userId |-> userId, online |-> TRUE, device |-> d,
                          lastCoordinators |-> {} ]
    /\ UNCHANGED << now, devices, channels, activeConnections, sockets, minCoordinators, History,
                    draining, cleaning, backgroundJobs >>

\* a variant of MarkStale whose threshold is the present moment
MarkStale_Early(store) ==
    [ d \in DOMAIN store |->
        IF store[d].lastSeen < now /\ store[d].isOnline
        THEN [ store[d] EXCEPT !.isOnline = FALSE ]
        ELSE store[d] ]

\* Device.updateMany({ lastSeen: { $lt: now - 10 min }, isOnline: true }, { $set: { isOnline: false } })
MarkStale(store) ==
    [ d \in DOMAIN store |->
        IF store[d].lastSeen < now - OnlineWindow /\ store[d].isOnline
        THEN [ store[d] EXCEPT !.isOnline = FALSE ]
        ELSE store[d] ]

\* a variant of VeryOld with the threshold of the online window
VeryOld_TenMinutes(store) ==
    { d \in DOMAIN store : store[d].lastSeen < now - OnlineWindow /\ ~store[d].isOnline }

\* Device.deleteMany({ lastSeen: { $lt: now - 24 h }, isOnline: false })
VeryOld(store) ==
    { d \in DOMAIN store : store[d].lastSeen < now - PurgeAge /\ ~store[d].isOnline }

\* BackgroundJobs.cleanupStalePresence
cleanupStalePresence ==
    /\ devices' = Remove(MarkStale(devices), VeryOld(MarkStale(devices)))
    /\ last' = [ op |-> "cleanupStalePresence",
                 modifiedCount |-> Cardinality({ d \in DOMAIN devices :
                                                   MarkStale(devices)[d] # devices[d] }),
                 deletedCount |-> Cardinality(VeryOld(MarkStale(devices))) ]
    /\ UNCHANGED << now, channels, activeConnections, sockets, minCoordinators, History,
                    draining, cleaning, backgroundJobs >>

\* the records whose expiresAt has passed
ExpiredDevices(store) == { d \in DOMAIN store : store[d].expiresAt < now }

\* The TTL index on Device.expiresAt (expireAfterSeconds: 0): a pass of the
\* store's TTL monitor removes the records whose expiresAt has passed.
DeviceExpire ==
    /\ ExpiredDevices(devices) # {}
    /\ devices' = Remove(devices, ExpiredDevices(devices))
    /\ last' = [ op |-> "deviceExpire" ]
    /\ UNCHANGED << now, channels, activeConnections, sockets, minCoordinators, History,
                    draining, cleaning, backgroundJobs >>

\* Time passes.
Tick(minutes) ==
    /\ minutes > 0
    /\ now' = now + minutes
    /\ ticks' = ticks + 1
    /\ last' = NoOp
    /\ UNCHANGED << devices, channels, activeConnections, sockets, minCoordinators,
                    expected, trimmed, expired, sends, draining, cleaning, backgroundJobs >>

----------------------------------------------------------------------------
(* Coordinator elector *)

\* Device.distinct('networkId', { isOnline: true })
OnlineNetworks(store) == { store[d].networkId : d \in { x \in DOMAIN store : store[x].isOnline } }

\* the devices Device.countDocuments({ networkId, isCoordinator: true, isOnline: true }) counts
OnlineCoordinators(store, networkId) ==
    { d \in DOMAIN store :
        /\ store[d].networkId = networkId
        /\ store[d].isCoordinator
        /\ store[d].isOnline }

\* a variant of CapableCandidates that does not filter on the network
CapableCandidates_AnyNetwork(store, networkId) ==
    { d \in DOMAIN store :
        /\ store[d].isOnline
        /\ ~store[d].isCoordinator
        /\ store[d].capabilities \cap { "store", "relay" } # {} }

\* Device.find({ networkId, isOnline: true, isCoordinator: false,
\*               capabilities: { $in: ['store', 'relay'] } })
CapableCandidates(store, networkId) ==
    { d \in DOMAIN store :
        /\ store[d].networkId = networkId
        /\ store[d].isOnline
        /\ ~store[d].isCoordinator
        /\ store[d].capabilities \cap { "store", "relay" } # {} }

\* Device.find({ networkId, isOnline: true, isCoordinator: false })
AnyCandidates(store, networkId) ==
    { d \in DOMAIN store :
        /\ store[d].networkId = networkId
        /\ store[d].isOnline
        /\ ~store[d].isCoordinator }

\* a variant of PromoteDevices that also refreshes lastSeen
PromoteDevices_Touch(store, ids, tags) ==
    [ d \in DOMAIN store |->
        IF d \in ids
        THEN [ store[d] EXCEPT !.isCoordinator = TRUE, !.capabilities = @ \cup tags,
                               !.lastSeen = now ]
        ELSE store[d] ]

\* Device.updateMany({ deviceId: { $in: ids } },
\*     { $set: { isCoordinator: true }, $addToSet: { capabilities: tags } })
PromoteDevices(store, ids, tags) ==
    [ d \in DOMAIN store |->
        IF d \in ids
        THEN [ store[d] EXCEPT !.isCoordinator = TRUE, !.capabilities = @ \cup tags ]
        ELSE store[d] ]

\* a variant of EmergencyOutcomes that promotes nobody
EmergencyOutcomes_Skipped(store, networkId, remainingNeeded) == { store }

\* the emergency step of ensureCoordinators (lines 137-162), entered with the
\* number of devices still needed
EmergencyOutcomes(store, networkId, remainingNeeded) ==
    IF remainingNeeded > 0
    THEN { PromoteDevices(store, additional, { "coordinator", "relay" }) :
             additional \in Limit(AnyCandidates(store, networkId), remainingNeeded) }
    ELSE { store }

\* the promotion branch of ensureCoordinators (lines 110-163): the stores it
\* can leave, one for every way the two .limit() queries can pick
PromoteOutcomes(store, networkId, coordinatorCount, minCoord) ==
    IF coordinatorCount < minCoord
    THEN UNION { EmergencyOutcomes(PromoteDevices(store, candidates, { "coordinator" }),
                                   networkId,
                                   (minCoord - coordinatorCount) - Cardinality(candidates)) :
                   candidates \in Limit(CapableCandidates(store, networkId),
                                        minCoord - coordinatorCount) }
    ELSE { store }

\* Device.find({ networkId, isCoordinator: true, isOnline: true, capabilities: 'coordinator' })
Demotable(store, networkId) ==
    { d \in DOMAIN store :
        /\ store[d].networkId = networkId
        /\ store[d].isCoordinator
        /\ store[d].isOnline
        /\ "coordinator" \in store[d].capabilities }

\* a variant of ExcessCoordinators that returns one coordinator at most
ExcessCoordinators_One(store, networkId, excessCount) ==
    { T \in Limit(Demotable(store, networkId), 1) :
        \A x \in T, y \in Demotable(store, networkId) \ T :
            store[x].lastSeen <= store[y].lastSeen }

\* .sort({ lastSeen: 1 }).limit(excessCount) over Demotable
ExcessCoordinators(store, networkId, excessCount) ==
    { T \in Limit(Demotable(store, networkId), excessCount) :
        \A x \in T, y \in Demotable(store, networkId) \ T :
            store[x].lastSeen <= store[y].lastSeen }

\* a variant of DemoteDevices that leaves the capability list as it is
DemoteDevices_KeepTag(store, ids) ==
    [ d \in DOMAIN store |->
        IF d \in ids THEN [ store[d] EXCEPT !.isCoordinator = FALSE ] ELSE store[d] ]

\* Device.updateMany({ deviceId: { $in: ids } },
\*     { $set: { isCoordinator: false }, $pull: { capabilities: 'coordinator' } })
DemoteDevices(store, ids) ==
    [ d \in DOMAIN store |->
        IF d \in ids
        THEN [ store[d] EXCEPT !.isCoordinator = FALSE,
                               !.capabilities = @ \ { "coordinator" } ]
        ELSE store[d] ]

\* the demotion branch of ensureCoordinators (lines 165-193); coordinatorCount
\* is the count taken at the start of the network's turn
DemoteOutcomes(store, networkId, coordinatorCount) ==
    IF coordinatorCount > maxCoordinators
    THEN { DemoteDevices(store, excess) :
             excess \in ExcessCoordinators(store, networkId, coordinatorCount - maxCoordinators) }
    ELSE { store }

\* one turn of the loop of ensureCoordinators, for one network
ElectNetwork(store, networkId, minCoord) ==
    UNION { DemoteOutcomes(promoted, networkId,
                           Cardinality(OnlineCoordinators(store, networkId))) :
              promoted \in PromoteOutcomes(store, networkId,
                                           Cardinality(OnlineCoordinators(store, networkId)),
                                           minCoord) }

\* the loop of ensureCoordinators over the networks found at its start
RECURSIVE ElectNetworks(_, _, _)
ElectNetworks(stores, networks, minCoord) ==
    IF networks = {} THEN stores
    ELSE LET networkId == CHOOSE n \in networks : TRUE
         IN  ElectNetworks(UNION { ElectNetwork(s, networkId, minCoord) : s \in stores },
                           networks \ { networkId }, minCoord)

\* BackgroundJobs.ensureCoordinators, run without interleaving
ensureCoordinators ==
    /\ devices' \in ElectNetworks({ devices }, OnlineNetworks(devices), minCoordinators)
    /\ last' = [ op |-> "ensureCoordinators", pre |-> devices ]
    /\ UNCHANGED << now, channels, activeConnections, sockets, minCoordinators, History,
                    draining, cleaning, backgroundJobs >>

----------------------------------------------------------------------------
(* Signaling relay *)

\* extractDeviceId(req.url).  urlPath is the request path split at '/' with
\* the empty parts dropped: its first part is a TLA+ string, the others are
\* character sequences.  The empty string stands for null.
extractDeviceId(urlPath) ==
    IF Len(urlPath) >= 2 /\ urlPath[1] = "signaling"
    THEN IF isValidDeviceId(urlPath[2]) THEN urlPath[2] ELSE << >>
    ELSE << >>

\* validateJWT(extractToken(req)).  A token is [valid, username]: jwt.verify
\* returns the payload of a token that verifies and throws for any other; a
\* request without a token carries one that does not verify.  "" stands for null.
validateJWT(token) == IF token.valid THEN token.username ELSE ""

\* the WebSocket of a request handleConnection turns away: ws.close(1008, ...)
\* starts the closing handshake and no handler is attached
RejectedSocket(urlPath, token) ==
    [ readyState |-> "CLOSING", closeCode |-> 1008, isAuthenticated |-> FALSE,
      deviceId |-> << >>, userId |-> "", handlers |-> FALSE, outbox |-> << >>,
      request |-> [ urlPath |-> urlPath, token |-> token ] ]

\* the WebSocket of a request handleConnection accepts, after the confirmation
AcceptedSocket(urlPath, token) ==
    [ readyState |-> "OPEN", closeCode |-> 0, isAuthenticated |-> TRUE,
      deviceId |-> extractDeviceId(urlPath), userId |-> validateJWT(token),
      handlers |-> TRUE,
      outbox |-> << [ kind |-> "connection_established",
                      deviceId |-> extractDeviceId(urlPath) ] >>,
      request |-> [ urlPath |-> urlPath, token |-> token ] ]

\* a variant of TurnedAway that does not look at the device identifier
TurnedAway_TokenOnly(urlPath, token) == validateJWT(token) = ""

\* !user || !deviceId (line 55)
TurnedAway(urlPath, token) == validateJWT(token) = "" \/ extractDeviceId(urlPath) = << >>

\* SignalingServer.handleConnection(ws, req).  The socket keeps the request it
\* came with (history).
handleConnection(urlPath, token) ==
    /\ IF TurnedAway(urlPath, token)
       THEN /\ sockets' = Append(sockets, RejectedSocket(urlPath, token))
            /\ UNCHANGED activeConnections
       ELSE /\ sockets' = Append(sockets, AcceptedSocket(urlPath, token))
            /\ activeConnections' =
                    Upsert(activeConnections, extractDeviceId(urlPath), Len(sockets) + 1)
    /\ last' = [ op |-> "connect", socket |-> Len(sockets) + 1 ]
    /\ UNCHANGED << now, devices, channels, minCoordinators, History,
                    draining, cleaning, backgroundJobs >>

\* The socket goes away (the client closes it, the transport fails, or the
\* closing handshake ends); ws.on('close') and ws.on('error') run where
\* handleConnection attached them.
SocketClose(ws) ==
    /\ ws \in 1..Len(sockets)
    /\ sockets[ws].readyState # "CLOSED"
    /\ sockets' = [ sockets EXCEPT ![ws].readyState = "CLOSED" ]
    /\ activeConnections' = IF sockets[ws].handlers
                            THEN Remove(activeConnections, { sockets[ws].deviceId })
                            ELSE activeConnections
    /\ last' = [ op |-> "close", socket |-> ws ]
    /\ UNCHANGED << now, devices, channels, minCoordinators, History,
                    draining, cleaning, backgroundJobs >>

\* ws.send(frame) on socket ws
SendFrame(socks, ws, frame) == [ socks EXCEPT ![ws].outbox = Append(@, frame) ]

\* !type || !toPeerId || !data, then the two isValidDeviceId tests (lines 105-112)
InvalidMessage(message, fromDeviceId) ==
    \/ message.type = ""
    \/ message.toPeerId = << >>
    \/ message.data = 0
    \/ ~isValidDeviceId(fromDeviceId)
    \/ ~isValidDeviceId(message.toPeerId)

\* the checks of lines 116-127 fail: a device is missing or the networks differ
Unauthorized(message, fromDeviceId) ==
    \/ fromDeviceId \notin DOMAIN devices
    \/ message.toPeerId \notin DOMAIN devices
    \/ devices[fromDeviceId].networkId # devices[message.toPeerId].networkId

\* a variant of StoredMessage that takes the sender from the message body
StoredMessage_FromBody(message, fromDeviceId) ==
    [ type |-> message.type, from |-> message.from, to |-> message.toPeerId,
      data |-> message.data, timestamp |-> now ]

\* the array element $push adds
StoredMessage(message, fromDeviceId) ==
    [ type |-> message.type, from |-> fromDeviceId, to |-> message.toPeerId,
      data |-> message.data, timestamp |-> now ]

\* SignalingChannel.findOneAndUpdate({ channelId }, { $push, $setOnInsert }, { upsert: true })
AppendMessage(coll, message, fromDeviceId) ==
    IF generateChannelId(fromDeviceId, message.toPeerId) \in DOMAIN coll
    THEN [ coll EXCEPT ![generateChannelId(fromDeviceId, message.toPeerId)].messages =
             Append(@, StoredMessage(message, fromDeviceId)) ]
    ELSE Upsert(coll, generateChannelId(fromDeviceId, message.toPeerId),
             [ channelId |-> generateChannelId(fromDeviceId, message.toPeerId),
               participants |-> << fromDeviceId, message.toPeerId >>,
               messages |-> << StoredMessage(message, fromDeviceId) >>,
               createdAt |-> now,
               expiresAt |-> now + ChannelTTL ])

\* activeConnections.get(deviceId), when it is a socket with readyState OPEN; else 0
OpenSocketOf(deviceId) ==
    IF deviceId \in DOMAIN activeConnections
       /\ sockets[activeConnections[deviceId]].readyState = "OPEN"
    THEN activeConnections[deviceId]
    ELSE 0

\* the frame forwarded to the destination (lines 157-163)
SignalFrame(message, fromDeviceId) ==
    [ kind |-> "signal", type |-> message.type, fromPeerId |-> fromDeviceId,
      toPeerId |-> message.toPeerId, data |-> message.data, timestamp |-> now ]

\* A frame that parses to `message` arrives on socket ws.  Where
\* handleConnection attached its handlers, ws.on('message') (lines 70-81) runs
\* handleSignalingMessage(message, deviceId); elsewhere nothing listens.
handleSignalingMessage(ws, message) ==
    /\ ws \in 1..Len(sockets)
    /\ sockets[ws].readyState # "CLOSED"
    /\ sends' = sends + 1
    /\ IF ~sockets[ws].handlers
       THEN /\ last' = [ op |-> "message", socket |-> ws, body |-> message, type |-> message.type,
                         data |-> message.data, outcome |-> "unheard",
                         to |-> message.toPeerId, forwardedTo |-> 0, errorTo |-> 0 ]
            /\ UNCHANGED << sockets, channels, expected >>
       ELSE IF InvalidMessage(message, sockets[ws].deviceId)
       THEN \* thrown before the try block: caught by the caller, answered on ws
            /\ sockets' = SendFrame(sockets, ws,
                    [ kind |-> "error", error |-> "Invalid message format" ])
            /\ last' = [ op |-> "message", socket |-> ws, body |-> message, type |-> message.type,
                         data |-> message.data, outcome |-> "invalid",
                         to |-> message.toPeerId, forwardedTo |-> 0, errorTo |-> ws ]
            /\ UNCHANGED << channels, expected >>
       ELSE IF Unauthorized(message, sockets[ws].deviceId)
       THEN \* thrown inside the try block: answered through the connection map
            /\ sockets' = IF OpenSocketOf(sockets[ws].deviceId) # 0
                          THEN SendFrame(sockets, OpenSocketOf(sockets[ws].deviceId),
                                   [ kind |-> "error", error |-> "Failed to deliver message",
                                     type |-> message.type, toPeerId |-> message.toPeerId ])
                          ELSE sockets
            /\ last' = [ op |-> "message", socket |-> ws, body |-> message, type |-> message.type,
                         data |-> message.data, outcome |-> "rejected",
                         to |-> message.toPeerId, forwardedTo |-> 0,
                         errorTo |-> OpenSocketOf(sockets[ws].deviceId) ]
            /\ UNCHANGED << channels, expected >>
       ELSE /\ channels' = AppendMessage(channels, message, sockets[ws].deviceId)
            /\ expected' = [ expected EXCEPT ![message.toPeerId] =
                                Append(@, StoredMessage(message, sockets[ws].deviceId)) ]
            /\ sockets' = IF OpenSocketOf(message.toPeerId) # 0
                          THEN SendFrame(sockets, OpenSocketOf(message.toPeerId),
                                   SignalFrame(message, sockets[ws].deviceId))
                          ELSE sockets
            /\ last' = [ op |-> "message", socket |-> ws, body |-> message, type |-> message.type,
                         data |-> message.data, outcome |-> "stored",
                         to |-> message.toPeerId,
                         forwardedTo |-> OpenSocketOf(message.toPeerId), errorTo |-> 0 ]
    /\ UNCHANGED << now, devices, activeConnections, minCoordinators, trimmed, expired, ticks,
                    draining, cleaning, backgroundJobs >>

----------------------------------------------------------------------------
(* Channel store: drain and cleanup *)

AddressedTo(msg, deviceId) == msg.to = deviceId
NotAddressedTo(msg, deviceId) == msg.to # deviceId

\* SignalingChannel.find({ participants: deviceId, 'messages.to': deviceId })
ChannelsFor(coll, deviceId) ==
    { c \in DOMAIN coll :
        /\ \E i \in 1..Len(coll[c].participants) : coll[c].participants[i] = deviceId
        /\ \E i \in 1..Len(coll[c].messages) : coll[c].messages[i].to = deviceId }

\* the orders in which a query without a sort can return the documents of S
Orderings(S) ==
    { order \in [ 1..Cardinality(S) -> S ] :
        \A i, j \in 1..Cardinality(S) : i # j => order[i] # order[j] }

\* the loop of lines 271-284: messages.push(...channel.messages.filter(to === deviceId))
RECURSIVE CollectMessages(_, _, _)
CollectMessages(coll, order, deviceId) ==
    IF order = << >> THEN << >>
    ELSE SelectSeq2(coll[Head(order)].messages, AddressedTo, deviceId)
            \o CollectMessages(coll, Tail(order), deviceId)

\* a variant of PullMessages that empties the channels it touches
PullMessages_Everything(coll, ids, deviceId) ==
    [ c \in DOMAIN coll |->
        IF c \in ids THEN [ coll[c] EXCEPT !.messages = << >> ] ELSE coll[c] ]

\* a variant of PullMessages that removes nothing
PullMessages_Nothing(coll, ids, deviceId) == coll

\* bulkWrite of { $pull: { messages: { to: deviceId } } } on the channels in ids
PullMessages(coll, ids, deviceId) ==
    [ c \in DOMAIN coll |->
        IF c \in ids
        THEN [ coll[c] EXCEPT !.messages = SelectSeq2(@, NotAddressedTo, deviceId) ]
        ELSE coll[c] ]

\* a variant of OwnedBy that accepts the record of any user
OwnedBy_AnyUser(deviceId, username) == deviceId \in DOMAIN devices

\* Device.findOne({ deviceId, userId: username }) finds a record
OwnedBy(deviceId, username) ==
    /\ deviceId \in DOMAIN devices
    /\ devices[deviceId].userId = username

\* GET /signaling/messages/:deviceId by the authenticated user `username`,
\* run without interleaving
DrainMessages(username, deviceId) ==
    /\ IF ~OwnedBy(deviceId, username)
       THEN /\ last' = [ op |-> "drain", status |-> 403, deviceId |-> deviceId,
                         user |-> username,
                         messages |-> << >>, want |-> << >>, trimmed |-> FALSE,
                         expired |-> FALSE, pre |-> channels ]
            /\ UNCHANGED << channels, expected, trimmed, expired >>
       ELSE \E order \in Orderings(ChannelsFor(channels, deviceId)) :
            /\ last' = [ op |-> "drain", status |-> 200, deviceId |-> deviceId,
                         user |-> username,
                         messages |-> CollectMessages(channels, order, deviceId),
                         want |-> expected[deviceId], trimmed |-> deviceId \in trimmed,
                         expired |-> deviceId \in expired, pre |-> channels ]
            /\ channels' = PullMessages(channels, ChannelsFor(channels, deviceId), deviceId)
            /\ expected' = [ expected EXCEPT ![deviceId] = << >> ]
            /\ trimmed' = trimmed \ { deviceId }
            /\ expired' = expired \ { deviceId }
    /\ UNCHANGED << now, devices, activeConnections, sockets, minCoordinators, sends, ticks,
                    draining, cleaning, backgroundJobs >>

\* signalingChannelSchema.pre('save')
preSave(messages) ==
    IF Len(messages) > SaveCap THEN LastN(messages, SaveKeep) ELSE messages

\* a variant of EmptyChannels that finds none
EmptyChannels_None(coll) == {}

\* SignalingChannel.deleteMany({ messages: { $size: 0 } } or no messages field)
EmptyChannels(coll) == { c \in DOMAIN coll : Len(coll[c].messages) = 0 }

\* a variant of TrimChannels that saves the channels without slicing them
TrimChannels_SaveOnly(coll) ==
    [ c \in DOMAIN coll |-> [ coll[c] EXCEPT !.messages = preSave(@) ] ]

\* channel.messages = channel.messages.slice(-10); await channel.save(), for
\* every channel found with 'messages.10'
TrimChannels(coll) ==
    [ c \in DOMAIN coll |->
        IF Len(coll[c].messages) > CleanupKeep
        THEN [ coll[c] EXCEPT !.messages = preSave(LastN(@, CleanupKeep)) ]
        ELSE coll[c] ]

\* history: the destinations of the messages held in coll
Destinations(coll) ==
    UNION { { coll[c].messages[i].to : i \in 1..Len(coll[c].messages) } : c \in DOMAIN coll }

\* history: the destinations that have a message in coll that is not in kept
Dropped(coll, kept) ==
    { d \in Destinations(coll) :
        \E c \in DOMAIN coll :
            SelectSeq2(coll[c].messages, AddressedTo, d) #
                IF c \in DOMAIN kept THEN SelectSeq2(kept[c].messages, AddressedTo, d)
                ELSE << >> }

\* BackgroundJobs.cleanupSignalingChannels, run without interleaving
cleanupSignalingChannels ==
    /\ channels' = TrimChannels(Remove(channels, EmptyChannels(channels)))
    /\ trimmed' = trimmed \cup Dropped(channels, channels')
    /\ last' = [ op |-> "cleanupSignalingChannels", pre |-> channels ]
    /\ UNCHANGED << now, devices, activeConnections, sockets, minCoordinators,
                    expected, expired, sends, ticks, draining, cleaning, backgroundJobs >>

\* The TTL index on SignalingChannel.expiresAt (expireAfterSeconds: 0): the
\* store removes a channel at some moment after its expiresAt has passed.
ChannelExpire(c) ==
    /\ c \in DOMAIN channels
    /\ channels[c].expiresAt < now
    /\ channels' = Remove(channels, { c })
    /\ expired' = expired \cup Dropped(channels, channels')
    /\ last' = [ op |-> "channelExpire", channelId |-> c ]
    /\ UNCHANGED << now, devices, activeConnections, sockets, minCoordinators,
                    expected, trimmed, sends, ticks, draining, cleaning, backgroundJobs >>

----------------------------------------------------------------------------
(* Specifications *)

Peers == { PeerA, PeerB, PeerC, PeerD, PeerE, PeerF, PeerG, PeerH }

\* the state after the server has started: empty collections, no connection
Init ==
    /\ now = 0
    /\ devices = << >>
    /\ channels = << >>
    /\ activeConnections = << >>
    /\ sockets = << >>
    /\ minCoordinators = 2
    /\ last = NoOp
    /\ expected = [ d \in Peers |-> << >> ]
    /\ trimmed = {}
    /\ expired = {}
    /\ sends = 0
    /\ ticks = 0
    /\ draining = Idle
    /\ cleaning = Idle
    /\ backgroundJobs = Constructed

\* who owns which device, and the network it announces in
OwnerOf == [ d \in Peers |->
               IF d \in { PeerA, PeerE } THEN "alice"
               ELSE IF d = PeerC THEN "carol"
               ELSE "bob" ]
HomeOf == [ d \in Peers |-> IF d = PeerC THEN "net2" ELSE "net1" ]

GoodToken(username) == [ valid |-> TRUE, username |-> username ]
BadToken == [ valid |-> FALSE, username |-> "" ]

----------------------------------------------------------------------------
(* SpecConnect: connections that are accepted and connections that are      *)
(* turned away, and frames arriving on either kind.                         *)

MaxConnectSockets == 2
MaxConnectFrames == 1

\* the requests clients open a signaling connection with
ConnectRequests ==
    { << << "signaling", PeerA >>, GoodToken("alice") >>,
      << << "signaling", PeerA >>, BadToken >>,
      << << "signaling", BadId >>, GoodToken("alice") >>,
      << << "signaling" >>, GoodToken("alice") >>,
      << << >>, BadToken >> }

NextConnect ==
    \/ \E d \in { PeerA, PeerB } : Announce(OwnerOf[d], HomeOf[d], d, "ws://host", {})
    \/ \E r \in ConnectRequests :
          /\ Len(sockets) < MaxConnectSockets
          /\ handleConnection(r[1], r[2])
    \/ \E ws \in 1..Len(sockets) : SocketClose(ws)
    \/ \E ws \in 1..Len(sockets), to \in { PeerA, PeerB } :
          /\ sends < MaxConnectFrames
          /\ handleSignalingMessage(ws, [ type |-> "offer", toPeerId |-> to, data |-> 1 ])

SpecConnect == Init /\ [][NextConnect]_vars

\* the request of socket ws has a credential that fails verification, or no
\* device identifier in its path, or one that fails the format check
BadRequest(ws) ==
    \/ ~sockets[ws].request.token.valid
    \/ Len(sockets[ws].request.urlPath) < 2
    \/ ~isValidDeviceId(sockets[ws].request.urlPath[2])

\* C10: a connection whose credential fails verification, or whose path device
\* identifier is missing or malformed, is closed with code 1008, is never in
\* the connection map, is sent no confirmation (nor anything else), and a
\* frame arriving on it is not processed: it is neither answered, stored nor
\* forwarded.
C10_BadConnectionRejected ==
    /\ \A ws \in 1..Len(sockets) :
          BadRequest(ws) =>
              /\ sockets[ws].closeCode = 1008
              /\ sockets[ws].readyState # "OPEN"
              /\ sockets[ws].outbox = << >>
              /\ \A d \in DOMAIN activeConnections : activeConnections[d] # ws
    /\ (last.op = "message" /\ BadRequest(last.socket)) =>
          /\ last.outcome = "unheard"
          /\ last.forwardedTo = 0
          /\ last.errorTo = 0
    /\ \A c \in DOMAIN channels : \A i \in 1..Len(channels[c].messages) :
          \E ws \in 1..Len(sockets) :
              ~BadRequest(ws) /\ sockets[ws].deviceId = channels[c].messages[i].from

\* C10 witness: a frame has arrived on a connection that was turned away for
\* its malformed device identifier, while another connection is registered
C10_Witness ==
    /\ last.op = "message"
    /\ BadRequest(last.socket)
    /\ sockets[last.socket].request.token.valid
    /\ Len(sockets[last.socket].request.urlPath) = 2
    /\ DOMAIN activeConnections # {}

----------------------------------------------------------------------------
(* SpecRelay: three devices, peer_a and peer_b in net1 and peer_c in net2;   *)
(* peer_a and peer_b open signaling connections, any number of them.         *)

MaxRelaySockets == 2
MaxRelayFrames == 2

NextRelay ==
    \/ \E d \in { PeerA, PeerB, PeerC } : Announce(OwnerOf[d], HomeOf[d], d, "ws://host", {})
    \/ \E d \in { PeerA, PeerB } :
          /\ Len(sockets) < MaxRelaySockets
          /\ handleConnection(<< "signaling", d >>, GoodToken(OwnerOf[d]))
    \/ \E ws \in 1..Len(sockets) : SocketClose(ws)
    \/ \E ws \in 1..Len(sockets), to \in { PeerA, PeerB, PeerC } :
          /\ sends < MaxRelayFrames
          /\ handleSignalingMessage(ws, [ type |-> "offer", toPeerId |-> to, data |-> sends + 1 ])
    \/ \E d \in { PeerA, PeerB } : DrainMessages(OwnerOf[d], d)

SpecRelay == Init /\ [][NextRelay]_vars

\* sender and destination are not two devices of one network
NoCommonNetwork(from, to) ==
    \/ from \notin DOMAIN devices
    \/ to \notin DOMAIN devices
    \/ devices[from].networkId # devices[to].networkId

\* the frames socket ws is sent in this step
NewFrames(ws) == SubSeq(sockets'[ws].outbox, Len(sockets[ws].outbox) + 1, Len(sockets'[ws].outbox))

\* C3: a well-formed message whose sender or destination has no presence
\* record, or whose records name different networks, creates or extends no
\* channel, is forwarded to nobody, and is answered with an error on a
\* connection of the sending device.
C3_CrossNetworkRejected ==
    [][ ( /\ last'.op = "message"
          /\ last'.outcome \notin { "unheard", "invalid" }
          /\ NoCommonNetwork(sockets[last'.socket].deviceId, last'.to) )
        => ( /\ channels' = channels
             /\ \A ws \in 1..Len(sockets) : \A i \in 1..Len(NewFrames(ws)) :
                   NewFrames(ws)[i].kind # "signal"
             /\ \E ws \in 1..Len(sockets) :
                   /\ sockets[ws].deviceId = sockets[last'.socket].deviceId
                   /\ NewFrames(ws) # << >>
                   /\ NewFrames(ws)[1].kind = "error" ) ]_vars

----------------------------------------------------------------------------
(* SpecDrain: three devices of net1 that exchange messages in both          *)
(* directions and drain their mailboxes; peer_a and peer_b connect, once    *)
(* each.                                                                    *)

MaxDrainFrames == 2

NextDrain ==
    \/ \E d \in { PeerA, PeerB, PeerD } : Announce(OwnerOf[d], HomeOf[d], d, "ws://host", {})
    \/ \E d \in { PeerA, PeerB } :
          /\ d \notin DOMAIN activeConnections
          /\ handleConnection(<< "signaling", d >>, GoodToken(OwnerOf[d]))
    \/ \E ws \in 1..Len(sockets), to \in { PeerA, PeerB, PeerD } :
          /\ sends < MaxDrainFrames
          /\ handleSignalingMessage(ws, [ type |-> "offer", toPeerId |-> to, data |-> sends + 1 ])
    \/ \E d \in { PeerA, PeerB, PeerD } : DrainMessages(OwnerOf[d], d)

SpecDrain == Init /\ [][NextDrain]_vars

\* the elements of the sequence s
Range(s) == { s[i] : i \in 1..Len(s) }

\* C4: a drain for device d returns only messages addressed to d, each
\* queued message addressed to d exactly once, and removes exactly those from
\* the channels: the messages addressed to anyone else, the ones d sent
\* included, stay queued, in their order.
C4_DrainOnlyOwnMessages ==
    (last.op = "drain" /\ last.status = 200) =>
        /\ \A i \in 1..Len(last.messages) : last.messages[i].to = last.deviceId
        /\ \A c \in DOMAIN last.pre :
              /\ c \in DOMAIN channels
              /\ channels[c].messages =
                    SelectSeq2(last.pre[c].messages, NotAddressedTo, last.deviceId)
              /\ Range(SelectSeq2(last.pre[c].messages, AddressedTo, last.deviceId))
                    \subseteq Range(last.messages)
        /\ DOMAIN channels = DOMAIN last.pre

\* C4 witness: a drain returned a message while the same channel held a
\* message that the draining device had sent, which is still queued
C4_Witness ==
    /\ last.op = "drain"
    /\ last.status = 200
    /\ last.messages # << >>
    /\ \E c \in DOMAIN channels : \E i \in 1..Len(channels[c].messages) :
          /\ channels[c].messages[i].from = last.deviceId
          /\ channels[c].messages[i].to # last.deviceId
          /\ \E j \in 1..Len(last.pre[c].messages) :
                last.pre[c].messages[j].to = last.deviceId

----------------------------------------------------------------------------
(* SpecMailbox: peer_a, connected, sends to peer_b, which never connects and *)
(* drains its mailbox over HTTP, while the cleanup job runs and time passes. *)

MaxMailboxFrames == 11
MaxMailboxTicks == 1

\* the client of peer_a sends once both devices have announced
BothAnnounced == { PeerA, PeerB } \subseteq DOMAIN devices

NextMailbox ==
    \/ \E d \in { PeerA, PeerB } : Announce(OwnerOf[d], HomeOf[d], d, "ws://host", {})
    \/ /\ PeerA \notin DOMAIN activeConnections
       /\ handleConnection(<< "signaling", PeerA >>, GoodToken("alice"))
    \/ /\ sends < MaxMailboxFrames
       /\ BothAnnounced
       /\ \E ws \in 1..Len(sockets) :
             handleSignalingMessage(ws, [ type |-> "offer", toPeerId |-> PeerB, data |-> sends + 1 ])
    \/ DrainMessages("bob", PeerB)
    \/ cleanupSignalingChannels
    \/ ticks < MaxMailboxTicks /\ Tick(ChannelTTL + 1)
    \/ \E c \in DOMAIN channels : ChannelExpire(c)
    \/ DeviceExpire

SpecMailbox == Init /\ [][NextMailbox]_vars

SentBy(msg, deviceId) == msg.from = deviceId

----------------------------------------------------------------------------
(* SpecFlood: peer_a sends to peer_b without pause.                          *)

MaxFloodFrames == 51

NextFlood ==
    \/ \E d \in { PeerA, PeerB } : Announce(OwnerOf[d], HomeOf[d], d, "ws://host", {})
    \/ /\ PeerA \notin DOMAIN activeConnections
       /\ handleConnection(<< "signaling", PeerA >>, GoodToken("alice"))
    \/ /\ sends < MaxFloodFrames
       /\ BothAnnounced
       /\ \E ws \in 1..Len(sockets) :
             handleSignalingMessage(ws, [ type |-> "offer", toPeerId |-> PeerB, data |-> sends + 1 ])
    \/ DrainMessages("bob", PeerB)
    \/ cleanupSignalingChannels

SpecFlood == Init /\ [][NextFlood]_vars

\* C2: no channel record ever holds more than 50 messages.
C2_ChannelAtMostFifty ==
    \A c \in DOMAIN channels : Len(channels[c].messages) <= SaveCap

----------------------------------------------------------------------------
(* SpecElector: seven devices of net1 and one of net2 announce, go stale and *)
(* are swept, and the elector runs, under two settings of                    *)
(* MIN_COORDINATORS_PER_NETWORK.  The model starts when the first            *)
(* announcements are eleven minutes old.                                     *)

\* the settings of MIN_COORDINATORS_PER_NETWORK the model runs under: the
\* default, and one above maxCoordinators
MinCoordinatorsSettings == { 2, 7 }

\* the capability list each device's client announces
AnnouncedCapabilities ==
    [ d \in Peers |->
        IF d = PeerA THEN { "relay" }
        ELSE IF d \in { PeerB, PeerC } THEN {}
        ELSE { "coordinator" } ]

\* the devices that may have announced at time 0
EarlyPeers == { PeerD }

InitElector ==
    /\ now = OnlineWindow + 1
    /\ \E early \in SUBSET EarlyPeers :
          devices = [ d \in early |->
                        AnnouncedDevice(d, OwnerOf[d], HomeOf[d], "ws://host",
                                        AnnouncedCapabilities[d], 0) ]
    /\ channels = << >>
    /\ activeConnections = << >>
    /\ sockets = << >>
    /\ minCoordinators \in MinCoordinatorsSettings
    /\ last = NoOp
    /\ expected = [ d \in Peers |-> << >> ]
    /\ trimmed = {}
    /\ expired = {}
    /\ sends = 0
    /\ ticks = 0
    /\ draining = Idle
    /\ cleaning = Idle
    /\ backgroundJobs = Constructed

NextElector ==
    \/ \E d \in Peers :
          Announce(OwnerOf[d], HomeOf[d], d, "ws://host", AnnouncedCapabilities[d])
    \/ cleanupStalePresence
    \/ DeviceExpire
    \/ ensureCoordinators

SpecElector == InitElector /\ [][NextElector]_vars

\* an elector pass has just finished; last.pre is the store it started from
ElectorRan == last.op = "ensureCoordinators"

\* the online devices of a network
OnlineIn(store, networkId) ==
    { d \in DOMAIN store : store[d].networkId = networkId /\ store[d].isOnline }

CoordinatorsBefore(networkId) == Cardinality(OnlineCoordinators(last.pre, networkId))
CoordinatorsAfter(networkId) == Cardinality(OnlineCoordinators(devices, networkId))

\* C5 as stated: after an elector pass over a network with k >= 1 online
\* devices, the network has at least min(minCoordinators, k) online
\* coordinators, and never 0.
C5_AtLeastMinCoordinators ==
    ElectorRan =>
        \A n \in OnlineNetworks(last.pre) :
            /\ CoordinatorsAfter(n) >= Min(minCoordinators, Cardinality(OnlineIn(last.pre, n)))
            /\ CoordinatorsAfter(n) > 0

\* C5 amended: after an elector pass over a network with k >= 1 online devices
\* the network has at least min(minCoordinators, maxCoordinators, k) online
\* coordinators, and never 0 (minCoordinators >= 1).
C5_AtLeastMinUpToMax ==
    ElectorRan /\ minCoordinators >= 1 =>
        \A n \in OnlineNetworks(last.pre) :
            /\ CoordinatorsAfter(n) >=
                   Min(Min(minCoordinators, maxCoordinators), Cardinality(OnlineIn(last.pre, n)))
            /\ CoordinatorsAfter(n) > 0

\* a pass that found a network of minCoordinators or more online devices
\* without a coordinator and left it with minCoordinators of them
C5_Witness ==
    /\ ElectorRan
    /\ \E n \in OnlineNetworks(last.pre) :
          /\ Cardinality(OnlineIn(last.pre, n)) >= minCoordinators
          /\ CoordinatorsBefore(n) = 0
          /\ CoordinatorsAfter(n) = minCoordinators

\* C6: immediately after an elector pass the number of online coordinators of
\* a network is at most maxCoordinators, whatever the count before the pass
\* and whatever minCoordinators is.
C6_AtMostMaxCoordinators ==
    ElectorRan =>
        \A n \in OnlineNetworks(last.pre) : CoordinatorsAfter(n) <= maxCoordinators

\* the candidates of a network that advertise neither store nor relay
OtherCandidates(store, networkId) ==
    AnyCandidates(store, networkId) \ CapableCandidates(store, networkId)

\* the devices the emergency step of the pass promoted: only that step adds
\* 'relay' to a capability list
EmergencyPromoted(networkId) ==
    { d \in OtherCandidates(last.pre, networkId) : "relay" \in devices[d].capabilities }

\* the number of devices a network is short of minCoordinators at the start
Shortfall(networkId) == minCoordinators - CoordinatorsBefore(networkId)

\* capable devices are promoted first: as many of them as the shortfall asks
\* for (read off the store where the pass demotes nothing)
C9_CapableFirst ==
    ElectorRan =>
        \A n \in OnlineNetworks(last.pre) :
            Shortfall(n) > 0 /\ CoordinatorsBefore(n) <= maxCoordinators =>
                Cardinality({ d \in CapableCandidates(last.pre, n) : devices[d].isCoordinator })
                    = Min(Shortfall(n), Cardinality(CapableCandidates(last.pre, n)))

\* other devices are promoted only for the shortfall the capable ones leave
C9_ShortfallOnly ==
    ElectorRan =>
        \A n \in OnlineNetworks(last.pre) :
            Cardinality(EmergencyPromoted(n)) =
                IF Shortfall(n) > Cardinality(CapableCandidates(last.pre, n))
                THEN Min(Shortfall(n) - Cardinality(CapableCandidates(last.pre, n)),
                         Cardinality(OtherCandidates(last.pre, n)))
                ELSE 0

\* a device promoted in the emergency step ends with coordinator and relay
C9_EmergencyTags ==
    ElectorRan =>
        \A n \in OnlineNetworks(last.pre) :
            \A d \in EmergencyPromoted(n) :
                { "coordinator", "relay" } \subseteq devices[d].capabilities

\* peer_a [relay] and peer_b [] alone online in their network, min 2: both
\* end as coordinators
C9_Example ==
    ( /\ ElectorRan
      /\ minCoordinators = 2
      /\ OnlineIn(last.pre, "net1") = { PeerA, PeerB }
      /\ last.pre[PeerA].capabilities = { "relay" }
      /\ last.pre[PeerB].capabilities = {} )
    => devices[PeerA].isCoordinator /\ devices[PeerB].isCoordinator

\* C9: below minCoordinators the elector promotes devices advertising store or
\* relay first and other online devices only for the remaining shortfall;
\* every device promoted in the emergency step ends with both coordinator and
\* relay in its capability set; peer_a [relay] and peer_b [] with min 2 both
\* end as coordinators.
C9_CapableFirstThenEmergency ==
    /\ C9_CapableFirst
    /\ C9_ShortfallOnly
    /\ C9_EmergencyTags
    /\ C9_Example

\* the parts of C9 the elector keeps under every setting
C9_PromotionOrder ==
    /\ C9_CapableFirst
    /\ C9_ShortfallOnly
    /\ C9_Example

\* the example of C9 happens
C9_ExampleReached ==
    /\ ElectorRan
    /\ minCoordinators = 2
    /\ OnlineIn(last.pre, "net1") = { PeerA, PeerB }
    /\ last.pre[PeerA].capabilities = { "relay" }
    /\ last.pre[PeerB].capabilities = {}
    /\ devices[PeerB].capabilities = { "coordinator", "relay" }

----------------------------------------------------------------------------
(* SpecPresence: a network whose peer list is nearly full.  Ninety-nine      *)
(* devices of net1 may have announced at the start; peer_a and peer_b        *)
(* announce, time passes in steps of five minutes, the sweep and the TTL     *)
(* monitor run, and a member lists the peers of its networks (a list is not  *)
(* asked for twice in a row: listing changes nothing).                       *)

MaxPresenceTicks == 3

\* the length of a step of time, half the online window
PresenceStep == OnlineWindow \div 2

Digits == { "0", "1", "2", "3", "4", "5", "6", "7", "8", "9" }

\* peer_01 .. peer_99
CrowdIds ==
    { PeerPrefix \o << x, y >> : x \in Digits, y \in Digits } \ { PeerPrefix \o << "0", "0" >> }

\* the store after the devices of ids, all of one owner, have announced in
\* networkId at time 0
AnnouncedAtStart(ids, username, networkId, capabilities) ==
    [ d \in ids |-> AnnouncedDevice(d, username, networkId, "ws://host", capabilities, 0) ]

InitPresence ==
    /\ now = 0
    /\ devices \in { << >>, AnnouncedAtStart(CrowdIds, "bob", "net1", {}) }
    /\ channels = << >>
    /\ activeConnections = << >>
    /\ sockets = << >>
    /\ minCoordinators = 2
    /\ last = NoOp
    /\ expected = [ d \in Peers |-> << >> ]
    /\ trimmed = {}
    /\ expired = {}
    /\ sends = 0
    /\ ticks = 0
    /\ draining = Idle
    /\ cleaning = Idle
    /\ backgroundJobs = Constructed

NextPresence ==
    \/ \E d \in { PeerA, PeerB } : Announce(OwnerOf[d], "net1", d, "ws://host", {})
    \/ Announce("alice", "net2", PeerA, "ws://host", {})
    \/ Announce("carol", "net1", PeerC, "ws://host", {})
    \/ ticks < MaxPresenceTicks /\ Tick(PresenceStep)
    \/ cleanupStalePresence
    \/ DeviceExpire
    \/ last.op # "peers" /\ \E n \in { "net1", "net2" } : ListPeers("alice", n)
    \/ last.op # "peers" /\ ListPeers("carol", "net1")

SpecPresence == InitPresence /\ [][NextPresence]_vars

\* the record of d was announced within the online window
Fresh(d) == devices[d].lastSeen >= now - OnlineWindow

\* a member has just been given the peer list of last.networkId
Listed == last.op = "peers" /\ last.status = 200

\* the peer list holds nothing but records announced within the window, and
\* the sweep leaves no record older than the window online
C7_GoneAfterWindow ==
    /\ Listed => \A d \in last.peers : d \in DOMAIN devices /\ Fresh(d)
    /\ last.op = "cleanupStalePresence" =>
          \A d \in DOMAIN devices : ~Fresh(d) => ~devices[d].isOnline

\* C7 as stated: the peer list of a network includes every device whose
\* latest announcement named the network and is within the 10-minute window;
\* a device whose window has elapsed is not in the list, and not online once
\* a sweep has run.
C7_ListedWithinWindow ==
    /\ Listed =>
          \A d \in DOMAIN devices :
              devices[d].networkId = last.networkId /\ Fresh(d) => d \in last.peers
    /\ C7_GoneAfterWindow

\* C7 amended: the same, for a network that has at most 100 online devices
\* within the window.
C7_ListedWithinWindowUpToLimit ==
    /\ Listed /\ Cardinality(OnlinePeers(devices, last.networkId)) <= PeerLimit =>
          \A d \in DOMAIN devices :
              devices[d].networkId = last.networkId /\ Fresh(d) => d \in last.peers
    /\ C7_GoneAfterWindow

\* a full list of 100 devices that includes peer_a at the last moment of its
\* window
C7_Witness ==
    /\ Listed
    /\ Cardinality(last.peers) = PeerLimit
    /\ PeerA \in last.peers
    /\ devices[PeerA].lastSeen = now - OnlineWindow

----------------------------------------------------------------------------
(* SpecFallback: five coordinators of net1 may have announced at the start;  *)
(* a sixth, a device without the capability and a coordinator of net2        *)
(* announce, time passes in steps of half an hour, the sweep and the TTL     *)
(* monitor run, and members ask for the device of a user.                    *)

MaxFallbackTicks == 3

\* the length of a step of time, half the window of the fallback
FallbackStep == CoordinatorWindow \div 2

Crew == { PeerD, PeerE, PeerF, PeerG, PeerH }

FallbackCapabilities ==
    [ d \in { PeerA, PeerB, PeerC } |-> IF d = PeerB THEN {} ELSE { "coordinator" } ]

InitFallback ==
    /\ now = 0
    /\ devices \in { << >>, AnnouncedAtStart(Crew, "bob", "net1", { "coordinator" }) }
    /\ channels = << >>
    /\ activeConnections = << >>
    /\ sockets = << >>
    /\ minCoordinators = 2
    /\ last = NoOp
    /\ expected = [ d \in Peers |-> << >> ]
    /\ trimmed = {}
    /\ expired = {}
    /\ sends = 0
    /\ ticks = 0
    /\ draining = Idle
    /\ cleaning = Idle
    /\ backgroundJobs = Constructed

NextFallback ==
    \/ \E d \in { PeerA, PeerB, PeerC } :
          Announce(OwnerOf[d], HomeOf[d], d, "ws://host", FallbackCapabilities[d])
    \/ ticks < MaxFallbackTicks /\ Tick(FallbackStep)
    \/ cleanupStalePresence
    \/ DeviceExpire
    \/ \E u \in { "alice", "carol" } : FindPeer("alice", "net1", u)
    \/ FindPeer("carol", "net2", "alice")
    \/ FindPeer("carol", "net1", "alice")

SpecFallback == InitFallback /\ [][NextFallback]_vars

\* C8: when findPeer finds no online device of the requested owner in the
\* network, every coordinator it returns belongs to the requested network,
\* has isCoordinator = true and a lastSeen within the last hour, and at most
\* 5 are returned.
C8_FallbackCoordinators ==
    (last.op = "findPeer" /\ last.status = 200 /\ ~last.online) =>
        /\ OnlineDevicesOf(devices, last.networkId, last.userId) = {}
        /\ Cardinality(last.lastCoordinators) <= CoordinatorLimit
        /\ \A d \in last.lastCoordinators :
              /\ d \in DOMAIN devices
              /\ devices[d].networkId = last.networkId
              /\ devices[d].isCoordinator
              /\ devices[d].lastSeen >= now - CoordinatorWindow

\* a fallback of 5 coordinators, one of them at the edge of the hour, while
\* net1 has a sixth within the hour and net2 has a coordinator of its own
C8_Witness ==
    /\ last.op = "findPeer"
    /\ last.status = 200
    /\ ~last.online
    /\ last.networkId = "net1"
    /\ Cardinality(last.lastCoordinators) = CoordinatorLimit
    /\ \E d \in last.lastCoordinators : devices[d].lastSeen = now - CoordinatorWindow
    /\ PeerA \in DOMAIN devices /\ PeerA \notin last.lastCoordinators
    /\ devices[PeerA].isCoordinator
    /\ PeerC \in DOMAIN devices /\ devices[PeerC].isCoordinator

----------------------------------------------------------------------------
(* SpecReconnect: peer_a and peer_b of net1 open signaling connections,      *)
(* peer_a more than once; connections close in any order and one message is  *)
(* sent.                                                                     *)

MaxReconnectSockets == 3
MaxReconnectFrames == 1

NextReconnect ==
    \/ \E d \in { PeerA, PeerB } : Announce(OwnerOf[d], HomeOf[d], d, "ws://host", {})
    \/ /\ Len(sockets) < MaxReconnectSockets
       /\ handleConnection(<< "signaling", PeerA >>, GoodToken("alice"))
    \/ /\ Len(sockets) < MaxReconnectSockets
       /\ PeerB \notin DOMAIN activeConnections
       /\ handleConnection(<< "signaling", PeerB >>, GoodToken("bob"))
    \/ \E ws \in 1..Len(sockets) : SocketClose(ws)
    \/ \E ws \in 1..Len(sockets), to \in { PeerA, PeerB } :
          /\ sends < MaxReconnectFrames
          /\ handleSignalingMessage(ws, [ type |-> "offer", toPeerId |-> to, data |-> sends + 1 ])

SpecReconnect == Init /\ [][NextReconnect]_vars

\* the open authenticated connections of a device, by order of establishment
OpenConnectionsOf(deviceId) ==
    { ws \in 1..Len(sockets) :
        /\ sockets[ws].readyState = "OPEN"
        /\ sockets[ws].isAuthenticated
        /\ sockets[ws].deviceId = deviceId }

\* the largest element of a non-empty set of numbers
Latest(S) == CHOOSE x \in S : \A y \in S : y <= x

\* C11: the map holds at most one connection per device identifier, and a
\* message accepted for a device that has an open authenticated connection is
\* forwarded to the most recently established of its open connections.
C11_ForwardedToLatestConnection ==
    /\ \A d \in DOMAIN activeConnections : activeConnections[d] \in 1..Len(sockets)
    /\ (last.op = "message" /\ last.outcome = "stored"
            /\ OpenConnectionsOf(last.to) # {})
         => last.forwardedTo = Latest(OpenConnectionsOf(last.to))

----------------------------------------------------------------------------
(* SpecValidate: peer_a and peer_b of net1 connect and send messages of any  *)
(* type, destination and payload.                                            *)

MaxValidateFrames == 2

\* the values of signalingMessageSchema.type
SignalTypes == { "offer", "answer", "ice-candidate", "relay-request" }

\* the message types a client can put in a frame: the four of the schema, a
\* type outside it, and none
FrameTypes == SignalTypes \cup { "ping", "" }

NextValidate ==
    \/ \E d \in { PeerA, PeerB } : Announce(OwnerOf[d], HomeOf[d], d, "ws://host", {})
    \/ \E d \in { PeerA, PeerB } :
          /\ d \notin DOMAIN activeConnections
          /\ handleConnection(<< "signaling", d >>, GoodToken(OwnerOf[d]))
    \/ \E ws \in 1..Len(sockets), type \in FrameTypes,
          to \in { PeerA, PeerB, BadId, << >> }, data \in { 0, 1 } :
          /\ sends < MaxValidateFrames
          /\ handleSignalingMessage(ws, [ type |-> type, toPeerId |-> to, data |-> data ])

SpecValidate == Init /\ [][NextValidate]_vars

\* the message of the last step is one the relay may store or forward
WellFormed ==
    /\ last.type \in SignalTypes
    /\ isValidDeviceId(last.to)
    /\ last.data # 0

\* C12: a message is stored or forwarded only if its type is one of offer,
\* answer, ice-candidate, relay-request, its destination matches the device
\* identifier pattern and its payload is not empty; any other message gets an
\* error on the sender's connection and is neither stored nor forwarded.
C12_OnlyWellFormedMessages ==
    /\ \A c \in DOMAIN channels : \A i \in 1..Len(channels[c].messages) :
          /\ channels[c].messages[i].type \in SignalTypes
          /\ isValidDeviceId(channels[c].messages[i].to)
          /\ channels[c].messages[i].data # 0
    /\ \A ws \in 1..Len(sockets) : \A i \in 1..Len(sockets[ws].outbox) :
          sockets[ws].outbox[i].kind = "signal"
             => sockets[ws].outbox[i].type \in SignalTypes
    /\ (last.op = "message" /\ last.outcome # "unheard" /\ ~WellFormed)
         => /\ last.outcome = "invalid"
            /\ last.forwardedTo = 0
            /\ last.errorTo = last.socket

----------------------------------------------------------------------------
(* SpecDrainAccess: devices of net1 queue messages for each other, and any   *)
(* authenticated user asks for the mailbox of any device; bob may announce   *)
(* peer_a under his own name.                                                *)

MaxAccessFrames == 2

Callers == { "alice", "bob", "carol" }

NextDrainAccess ==
    \/ \E d \in { PeerA, PeerB } : Announce(OwnerOf[d], HomeOf[d], d, "ws://host", {})
    \/ Announce("bob", "net1", PeerA, "ws://host", {})
    \/ /\ PeerA \notin DOMAIN activeConnections
       /\ handleConnection(<< "signaling", PeerA >>, GoodToken("alice"))
    \/ \E ws \in 1..Len(sockets), to \in { PeerA, PeerB } :
          /\ sends < MaxAccessFrames
          /\ handleSignalingMessage(ws, [ type |-> "offer", toPeerId |-> to, data |-> sends + 1 ])
    \/ \E username \in Callers, d \in { PeerA, PeerB, PeerD } : DrainMessages(username, d)

SpecDrainAccess == Init /\ [][NextDrainAccess]_vars

\* C13: a drain succeeds only when the presence record of the device is owned
\* by the authenticated caller; any other drain is rejected, returns no
\* queued message and removes none.
C13_DrainOnlyByOwner ==
    last.op = "drain" =>
        /\ last.status = 200 <=>
              /\ last.deviceId \in DOMAIN devices
              /\ devices[last.deviceId].userId = last.user
        /\ last.status # 200 =>
              /\ last.status = 403
              /\ last.messages = << >>
              /\ channels = last.pre

\* C13 witness: a user who does not own the record of a device asked for its
\* mailbox while a message addressed to the device was queued
C13_Witness ==
    /\ last.op = "drain"
    /\ last.status = 403
    /\ last.deviceId \in DOMAIN devices
    /\ devices[last.deviceId].userId # last.user
    /\ \E c \in DOMAIN channels : \E i \in 1..Len(channels[c].messages) :
          channels[c].messages[i].to = last.deviceId

----------------------------------------------------------------------------
(* SpecAnnounce: members and non-members announce peer_a and peer_c in net1  *)
(* and net2 while time passes.  dave is a member of no network.              *)

MaxAnnounceTicks == 2

Announcers == { "alice", "bob", "carol", "dave" }

Networks == { "net1", "net2" }

NextAnnounce ==
    \/ \E username \in Announcers, networkId \in Networks, d \in { PeerA, PeerC },
          capabilities \in SUBSET { "coordinator" } :
          Announce(username, networkId, d, "ws://host", capabilities)
    \/ /\ ticks < MaxAnnounceTicks
       /\ Tick(1)

SpecAnnounce == Init /\ [][NextAnnounce]_vars

\* C14: an announcement by a user who is not an active member of the network
\* is rejected and leaves the presence store unchanged.
C14_NonMemberRejected ==
    [][ \A username \in Announcers, networkId \in Networks, d \in { PeerA, PeerC },
           capabilities \in SUBSET { "coordinator" } :
           ( /\ << networkId, username >> \notin ActiveMembers
             /\ Announce(username, networkId, d, "ws://host", capabilities) )
           => /\ last'.status = 403
              /\ devices' = devices ]_vars

\* C14 witness: an announcement was refused for a device that has a record,
\* written by a member at an earlier time
C14_Witness ==
    /\ last.op = "announce"
    /\ last.status = 403
    /\ last.deviceId \in DOMAIN devices
    /\ devices[last.deviceId].lastSeen < now

----------------------------------------------------------------------------
(* Claims about announcements of devices the elector has promoted, checked   *)
(* under SpecElector.                                                        *)

\* C15: on every accepted announcement the stored isCoordinator is the
\* previous isCoordinator of the device OR the announcement asking for the
\* coordinator capability: a device the elector promoted stays coordinator
\* when it announces again without the capability.
C15_CoordinatorFlagKept ==
    [][ (last'.op = "announce" /\ last'.status = 200)
          => devices'[last'.deviceId].isCoordinator =
                ( \/ /\ last'.deviceId \in DOMAIN devices
                     /\ devices[last'.deviceId].isCoordinator
                  \/ "coordinator" \in AnnouncedCapabilities[last'.deviceId] ) ]_vars

----------------------------------------------------------------------------
(* SpecExpiry: peer_a sends to peer_b from time to time, half an hour or     *)
(* more apart, and the store expires channels.                               *)

MaxExpiryFrames == 2
MaxExpiryTicks == 3
ExpiryStep == ChannelTTL \div 2

NextExpiry ==
    \/ \E d \in { PeerA, PeerB } : Announce(OwnerOf[d], HomeOf[d], d, "ws://host", {})
    \/ /\ PeerA \notin DOMAIN activeConnections
       /\ handleConnection(<< "signaling", PeerA >>, GoodToken("alice"))
    \/ /\ sends < MaxExpiryFrames
       /\ \E ws \in 1..Len(sockets) :
             handleSignalingMessage(ws, [ type |-> "offer", toPeerId |-> PeerB, data |-> sends + 1 ])
    \/ ticks < MaxExpiryTicks /\ Tick(ExpiryStep)
    \/ \E c \in DOMAIN channels : ChannelExpire(c)

SpecExpiry == Init /\ [][NextExpiry]_vars

\* C16: an append to a channel, existing or new, sets its expiresAt one hour
\* ahead, and a channel that expires holds no message received within the
\* last hour.
C16_AppendRefreshesExpiry ==
    [][ /\ (last'.op = "message" /\ last'.outcome = "stored")
            => \A c \in DOMAIN channels' :
                  channels'[c].messages # (IF c \in DOMAIN channels
                                           THEN channels[c].messages ELSE << >>)
                     => channels'[c].expiresAt = now + ChannelTTL
        /\ last'.op = "channelExpire"
            => \A c \in DOMAIN channels \ DOMAIN channels' :
                  \A i \in 1..Len(channels[c].messages) :
                     channels[c].messages[i].timestamp + ChannelTTL < now ]_vars

----------------------------------------------------------------------------
(* The drain handler, store operation by store operation.  Between its       *)
(* awaits other requests and relay messages are served.                      *)

\* GET /signaling/messages/:deviceId up to the result of SignalingChannel.find:
\* the ownership test, then the read of the channels that hold a message for
\* the device.  The documents read stay in the request's memory.
DrainFind(username, deviceId) ==
    /\ draining = Idle
    /\ cleaning = Idle
    /\ backgroundJobs = Constructed
    /\ IF ~OwnedBy(deviceId, username)
       THEN /\ last' = [ op |-> "drain", status |-> 403, deviceId |-> deviceId,
                         user |-> username, messages |-> << >>, want |-> << >> ]
            /\ UNCHANGED draining
       ELSE \E order \in Orderings(ChannelsFor(channels, deviceId)) :
            /\ draining' = [ stage |-> "found", deviceId |-> deviceId, user |-> username,
                             found |-> [ c \in ChannelsFor(channels, deviceId) |-> channels[c] ],
                             order |-> order, todo |-> order ]
            /\ last' = [ op |-> "drainFind", deviceId |-> deviceId ]
    /\ UNCHANGED << now, devices, channels, activeConnections, sockets, minCoordinators,
                    History, cleaning, backgroundJobs >>

\* one updateOne of the bulkWrite: $pull { messages: { to: deviceId } } on the
\* next channel that was read, applied to what the channel holds now
DrainPull ==
    /\ draining.stage = "found"
    /\ draining.todo # << >>
    /\ channels' = PullMessages(channels, { Head(draining.todo) }, draining.deviceId)
    /\ draining' = [ draining EXCEPT !.todo = Tail(@) ]
    /\ last' = [ op |-> "drainPull", channelId |-> Head(draining.todo) ]
    /\ UNCHANGED << now, devices, activeConnections, sockets, minCoordinators, History,
                    cleaning, backgroundJobs >>

\* res.json({ success, messageCount, messages }): the messages filtered from the
\* documents that were read
DrainRespond ==
    /\ draining.stage = "found"
    /\ draining.todo = << >>
    /\ LET result == CollectMessages(draining.found, draining.order, draining.deviceId)
           Undelivered(m) == \A i \in 1..Len(result) : result[i] # m
       IN /\ last' = [ op |-> "drain", status |-> 200, deviceId |-> draining.deviceId,
                       user |-> draining.user, messages |-> result,
                       want |-> expected[draining.deviceId] ]
          /\ expected' = [ expected EXCEPT ![draining.deviceId] = SelectSeq(@, Undelivered) ]
    /\ trimmed' = trimmed \ { draining.deviceId }
    /\ expired' = expired \ { draining.deviceId }
    /\ draining' = Idle
    /\ UNCHANGED << now, devices, channels, activeConnections, sockets, minCoordinators,
                    sends, ticks, cleaning, backgroundJobs >>

----------------------------------------------------------------------------
(* SpecConcurrentDrain: peer_a sends to peer_b while peer_b drains its       *)
(* mailbox.                                                                  *)

MaxConcurrentFrames == 3

NextConcurrentDrain ==
    \/ \E d \in { PeerA, PeerB } : Announce(OwnerOf[d], HomeOf[d], d, "ws://host", {})
    \/ /\ PeerA \notin DOMAIN activeConnections
       /\ handleConnection(<< "signaling", PeerA >>, GoodToken("alice"))
    \/ /\ sends < MaxConcurrentFrames
       /\ \E ws \in 1..Len(sockets) :
             handleSignalingMessage(ws, [ type |-> "offer", toPeerId |-> PeerB, data |-> sends + 1 ])
    \/ \E username \in { "alice", "bob" } : DrainFind(username, PeerB)
    \/ DrainPull
    \/ DrainRespond

SpecConcurrentDrain == Init /\ [][NextConcurrentDrain]_vars

\* the message m is held by a channel
Queued(m) ==
    \E c \in DOMAIN channels : \E i \in 1..Len(channels[c].messages) :
        channels[c].messages[i] = m

\* C17: when a drain completes, every message stored for its destination
\* since the previous drain, the ones appended between the drain's read and
\* its removal included, is in the drain's result or still queued.
C17_NoMessageLostByDrain ==
    (last.op = "drain" /\ last.status = 200) =>
        \A i \in 1..Len(last.want) :
            \/ \E j \in 1..Len(last.messages) : last.messages[j] = last.want[i]
            \/ Queued(last.want[i])

----------------------------------------------------------------------------
(* Claims about the trimming of channels, checked under SpecFlood.           *)

\* the last n elements of the sequence s, which has more than n
Newest(s, n) == [ i \in 1..n |-> s[Len(s) - n + i] ]

----------------------------------------------------------------------------
(* Claims about the removal of presence records, checked under SpecPresence. *)

\* C19: a presence record is removed from the store only when it is offline
\* (marked so before or by the sweep that removes it) and its lastSeen is
\* more than 24 hours old; a record that is online, or was seen within the
\* last 24 hours, is never removed.
C19_DeletedOnlyWhenOldAndOffline ==
    [][ \A d \in DOMAIN devices \ DOMAIN devices' :
           /\ devices[d].lastSeen < now - PurgeAge
           /\ ~devices[d].isOnline \/ last'.op = "cleanupStalePresence" ]_vars

----------------------------------------------------------------------------
(* Claims about the demotion of excess coordinators.                         *)

\* the online coordinators a network had when the pass started that the pass
\* left without the coordinator role
Demoted(networkId) ==
    { d \in OnlineCoordinators(last.pre, networkId) :
        d \in DOMAIN devices /\ ~devices[d].isCoordinator }

\* C20: when a network has more than maxCoordinators online coordinators, an
\* elector pass demotes exactly (count - maxCoordinators) of them: each loses
\* the role and the coordinator tag, and none of them was seen later than a
\* coordinator that keeps the role.
C20_DemoteLeastRecentlySeen ==
    ElectorRan =>
        \A n \in OnlineNetworks(last.pre) :
            CoordinatorsBefore(n) > maxCoordinators =>
                /\ Cardinality(Demoted(n)) = CoordinatorsBefore(n) - maxCoordinators
                /\ \A d \in Demoted(n) : "coordinator" \notin devices[d].capabilities
                /\ \A x \in Demoted(n), y \in OnlineCoordinators(last.pre, n) \ Demoted(n) :
                      last.pre[x].lastSeen <= last.pre[y].lastSeen

----------------------------------------------------------------------------
(* SpecDemotion: six devices of net1 are configured as coordinators, that is *)
(* they announce the coordinator capability themselves, under the default    *)
(* MIN_COORDINATORS_PER_NETWORK; the elector runs.                           *)

MaxDemotionTicks == 1

Configured == { PeerB, PeerD, PeerE, PeerF, PeerG, PeerH }

NextDemotion ==
    \/ \E d \in Configured :
          Announce(OwnerOf[d], HomeOf[d], d, "ws://host", { "coordinator" })
    \/ ticks < MaxDemotionTicks /\ Tick(1)
    \/ ensureCoordinators

SpecDemotion == Init /\ [][NextDemotion]_vars

\* The record is a coordinator by its own announcement: the elector promotes
\* only devices that advertise store or relay, or adds relay when it promotes.
SelfAnnounced(record) ==
    /\ record.isCoordinator
    /\ record.capabilities = { "coordinator" }

\* C21: an elector pass never demotes a device whose coordinator status comes
\* from its own announcement.
C21_ConfiguredNeverDemoted ==
    ElectorRan =>
        \A d \in DOMAIN last.pre :
            SelfAnnounced(last.pre[d]) => (d \in DOMAIN devices /\ devices[d].isCoordinator)

----------------------------------------------------------------------------
(* The relay when the store does not answer.                                 *)

\* handleSignalingMessage for a frame that arrives while the store is
\* unavailable: the structural checks (lines 105-112) need no store; the first
\* store call of the try block (Device.findOne, line 116, and with it the
\* append of line 133) rejects, and the catch block (lines 171-182) answers
\* through the connection map.  Nothing is appended and nothing is forwarded.
StoreUnavailable(ws, message) ==
    /\ ws \in 1..Len(sockets)
    /\ sockets[ws].readyState # "CLOSED"
    /\ sockets[ws].handlers
    /\ ~InvalidMessage(message, sockets[ws].deviceId)
    /\ sends' = sends + 1
    /\ sockets' = IF OpenSocketOf(sockets[ws].deviceId) # 0
                  THEN SendFrame(sockets, OpenSocketOf(sockets[ws].deviceId),
                           [ kind |-> "error", error |-> "Failed to deliver message",
                             type |-> message.type, toPeerId |-> message.toPeerId ])
                  ELSE sockets
    /\ last' = [ op |-> "message", socket |-> ws, type |-> message.type,
                 data |-> message.data, outcome |-> "failed",
                 to |-> message.toPeerId, forwardedTo |-> 0,
                 errorTo |-> OpenSocketOf(sockets[ws].deviceId) ]
    /\ UNCHANGED << now, devices, channels, activeConnections, minCoordinators,
                    expected, trimmed, expired, ticks, draining, cleaning, backgroundJobs >>

\* a frame arrives on socket ws while the store is available or not
RelayMessage(ws, message, available) ==
    IF available THEN handleSignalingMessage(ws, message)
    ELSE StoreUnavailable(ws, message)

----------------------------------------------------------------------------
(* SpecOutage: peer_a and peer_b of net1 connect, peer_a possibly twice,     *)
(* connections close, and messages arrive while the store is up or down.     *)

MaxOutageSockets == 3
MaxOutageFrames == 2

NextOutage ==
    \/ \E d \in { PeerA, PeerB } : Announce(OwnerOf[d], HomeOf[d], d, "ws://host", {})
    \/ /\ Len(sockets) < MaxOutageSockets
       /\ handleConnection(<< "signaling", PeerA >>, GoodToken("alice"))
    \/ /\ Len(sockets) < MaxOutageSockets
       /\ PeerB \notin DOMAIN activeConnections
       /\ handleConnection(<< "signaling", PeerB >>, GoodToken("bob"))
    \/ \E ws \in 1..Len(sockets) : SocketClose(ws)
    \/ \E ws \in 1..Len(sockets), to \in { PeerA, PeerB }, available \in BOOLEAN :
          /\ sends < MaxOutageFrames
          /\ RelayMessage(ws, [ type |-> "offer", toPeerId |-> to, data |-> sends + 1 ],
                          available)

SpecOutage == Init /\ [][NextOutage]_vars

\* C22: a message that is forwarded has been appended to its channel, and a
\* message whose append fails because the store is unavailable is not
\* forwarded and an error reaches an open connection of the sending device.
C22_ForwardAfterAppend ==
    /\ (last.op = "message" /\ last.forwardedTo # 0)
          => \E c \in DOMAIN channels : \E i \in 1..Len(channels[c].messages) :
                /\ channels[c].messages[i].data = last.data
                /\ channels[c].messages[i].to = last.to
    /\ (last.op = "message" /\ last.outcome = "failed")
          => /\ last.forwardedTo = 0
             /\ last.errorTo # 0
             /\ sockets[last.errorTo].deviceId = sockets[last.socket].deviceId

----------------------------------------------------------------------------
(* Frames as they arrive: text that JSON.parse accepts or rejects.           *)

\* a frame whose text is the JSON encoding of `message`
JSONFrame(message) == [ json |-> TRUE, body |-> message ]

\* a frame whose text is not JSON
GarbageFrame == [ json |-> FALSE ]

\* a variant of ParseError that answers nothing
ParseError_Silent(ws) ==
    /\ ws \in 1..Len(sockets)
    /\ sockets[ws].readyState # "CLOSED"
    /\ sockets[ws].handlers
    /\ sends' = sends + 1
    /\ last' = [ op |-> "message", socket |-> ws, type |-> "", data |-> 0,
                 outcome |-> "unparsed", to |-> << >>, forwardedTo |-> 0, errorTo |-> 0 ]
    /\ UNCHANGED << now, devices, channels, activeConnections, sockets, minCoordinators,
                    expected, trimmed, expired, ticks, draining, cleaning, backgroundJobs >>

\* ws.on('message') for a frame on which JSON.parse throws: the catch block of
\* lines 74-80 answers on ws itself
ParseError(ws) ==
    /\ ws \in 1..Len(sockets)
    /\ sockets[ws].readyState # "CLOSED"
    /\ sockets[ws].handlers
    /\ sends' = sends + 1
    /\ sockets' = SendFrame(sockets, ws,
                      [ kind |-> "error", error |-> "Invalid message format" ])
    /\ last' = [ op |-> "message", socket |-> ws, type |-> "", data |-> 0,
                 outcome |-> "unparsed", to |-> << >>, forwardedTo |-> 0, errorTo |-> ws ]
    /\ UNCHANGED << now, devices, channels, activeConnections, minCoordinators,
                    expected, trimmed, expired, ticks, draining, cleaning, backgroundJobs >>

\* ws.on('message', data): JSON.parse(data.toString()), then handleSignalingMessage
onMessage(ws, frame) ==
    IF frame.json THEN handleSignalingMessage(ws, frame.body) ELSE ParseError(ws)

----------------------------------------------------------------------------
(* SpecParse: peer_a and peer_b of net1 connect and send frames, some of     *)
(* which are not JSON.                                                       *)

MaxParseSockets == 2
MaxParseFrames == 2

NextParse ==
    \/ \E d \in { PeerA, PeerB } : Announce(OwnerOf[d], HomeOf[d], d, "ws://host", {})
    \/ \E d \in { PeerA, PeerB } :
          /\ Len(sockets) < MaxParseSockets
          /\ d \notin DOMAIN activeConnections
          /\ handleConnection(<< "signaling", d >>, GoodToken(OwnerOf[d]))
    \/ \E ws \in 1..Len(sockets) : SocketClose(ws)
    \/ \E ws \in 1..Len(sockets),
          frame \in { GarbageFrame } \cup
                    { JSONFrame([ type |-> "offer", toPeerId |-> to, data |-> sends + 1 ]) :
                        to \in { PeerA, PeerB } } :
          /\ sends < MaxParseFrames
          /\ onMessage(ws, frame)

SpecParse == Init /\ [][NextParse]_vars

\* C23: a frame that cannot be parsed is answered with an error on the
\* connection it arrived on and changes neither the connection map, nor any
\* channel record, nor the connection itself, which stays open and registered
\* as it was.
C23_UnparsedFrameAnswered ==
    [][ (last'.op = "message" /\ last'.outcome = "unparsed")
          => /\ activeConnections' = activeConnections
             /\ channels' = channels
             /\ sockets' = [ sockets EXCEPT ![last'.socket].outbox =
                               Append(@, [ kind |-> "error",
                                           error |-> "Invalid message format" ]) ] ]_vars

\* C23 witness: a well-formed message was stored for a connection that had
\* sent an unparseable frame before and had been answered with an error
C23_Witness ==
    /\ last.op = "message"
    /\ last.outcome = "stored"
    /\ \E i \in 1..Len(sockets[last.socket].outbox) :
          /\ sockets[last.socket].outbox[i].kind = "error"
          /\ sockets[last.socket].outbox[i].error = "Invalid message format"

----------------------------------------------------------------------------
(* SpecChannelKey: peer_a and peer_b of net1 connect and send to each other. *)

MaxKeyFrames == 2

NextChannelKey ==
    \/ \E d \in { PeerA, PeerB } : Announce(OwnerOf[d], HomeOf[d], d, "ws://host", {})
    \/ \E d \in { PeerA, PeerB } :
          /\ d \notin DOMAIN activeConnections
          /\ handleConnection(<< "signaling", d >>, GoodToken(OwnerOf[d]))
    \/ \E ws \in 1..Len(sockets), to \in { PeerA, PeerB } :
          /\ sends < MaxKeyFrames
          /\ handleSignalingMessage(ws, [ type |-> "offer", toPeerId |-> to, data |-> sends + 1 ])

SpecChannelKey == Init /\ [][NextChannelKey]_vars

\* identifiers the key is computed for: devices of the model and identifiers
\* that have another one as a prefix
KeyIds ==
    { PeerA, PeerB, PeerD, PeerA \o << "_" >>, PeerA \o << "_", "b" >>, PeerA \o << "0" >> }

\* C24: the channel key does not depend on the order of the two identifiers,
\* and the messages of both directions between two devices are held by one
\* channel record, the one under their key.
C24_ChannelKeySymmetric ==
    /\ \A a \in KeyIds, b \in KeyIds : generateChannelId(a, b) = generateChannelId(b, a)
    /\ \A c \in DOMAIN channels : \A i \in 1..Len(channels[c].messages) :
          /\ c = generateChannelId(channels[c].messages[i].from, channels[c].messages[i].to)
          /\ c = generateChannelId(channels[c].messages[i].to, channels[c].messages[i].from)

\* C24 witness: one channel record holds a message from one device to another
\* and a message in the opposite direction
C24_Witness ==
    \E c \in DOMAIN channels : \E i, j \in 1..Len(channels[c].messages) :
        /\ channels[c].messages[i].from = channels[c].messages[j].to
        /\ channels[c].messages[i].to = channels[c].messages[j].from
        /\ channels[c].messages[i].from # channels[c].messages[i].to

----------------------------------------------------------------------------
(* SpecSweep: three devices of net1 announce, minutes and days pass, and the *)
(* presence sweep runs; the store's TTL monitor may or may not have run.     *)

MaxSweepTicks == 3

\* the clock advances by half the online window or by the purge age
SweepSteps == { OnlineWindow \div 2, PurgeAge }

NextSweep ==
    \/ \E d \in { PeerA, PeerB, PeerD } : Announce(OwnerOf[d], HomeOf[d], d, "ws://host", {})
    \/ \E minutes \in SweepSteps : ticks < MaxSweepTicks /\ Tick(minutes)
    \/ cleanupStalePresence
    \/ DeviceExpire

SpecSweep == Init /\ [][NextSweep]_vars

\* C25: one sweep marks offline exactly the records that are online with a
\* lastSeen more than 10 minutes old, then deletes exactly the records that
\* are offline with a lastSeen more than 24 hours old, and leaves every other
\* record as it was.
C25_SweepMarksAndPurges ==
    [][ last'.op = "cleanupStalePresence" =>
          LET Stale(d) == devices[d].isOnline /\ devices[d].lastSeen < now - OnlineWindow
              Purged(d) == /\ ~devices[d].isOnline \/ Stale(d)
                           /\ devices[d].lastSeen < now - PurgeAge
          IN /\ DOMAIN devices' = { d \in DOMAIN devices : ~Purged(d) }
             /\ \A d \in DOMAIN devices' :
                   devices'[d] = IF Stale(d)
                                 THEN [ devices[d] EXCEPT !.isOnline = FALSE ]
                                 ELSE devices[d] ]_vars

\* C25 witness: one sweep deleted a record, marked another offline and left a
\* record that it had no reason to touch
C25_Witness ==
    /\ last.op = "cleanupStalePresence"
    /\ last.deletedCount > 0
    /\ last.modifiedCount > last.deletedCount
    /\ \E d \in DOMAIN devices : ~devices[d].isOnline
    /\ \E d \in DOMAIN devices : devices[d].isOnline

----------------------------------------------------------------------------
(* Claims about what the background jobs write, checked under SpecElector.   *)

\* the two records agree on every field but those named in `fields`
SameBut(before, after, fields) ==
    \A f \in DOMAIN before \ fields : after[f] = before[f]

\* C26: an elector pass changes only isCoordinator and the capability set of
\* a record and removes none; a sweep changes only isOnline or deletes the
\* record.  Neither changes lastSeen, expiresAt, networkId, the owner or the
\* rendezvous address of a record.
C26_JobsWriteOnlyTheirFields ==
    [][ /\ last'.op = "ensureCoordinators" =>
              /\ DOMAIN devices' = DOMAIN devices
              /\ \A d \in DOMAIN devices :
                    SameBut(devices[d], devices'[d], { "isCoordinator", "capabilities" })
        /\ last'.op = "cleanupStalePresence" =>
              /\ DOMAIN devices' \subseteq DOMAIN devices
              /\ \A d \in DOMAIN devices' :
                    SameBut(devices[d], devices'[d], { "isOnline" }) ]_vars

\* C26 witness: an elector pass has changed a record of a store in which a
\* sweep had marked a record offline
C26_Witness ==
    /\ ElectorRan
    /\ devices # last.pre
    /\ \E d \in DOMAIN last.pre : ~last.pre[d].isOnline

----------------------------------------------------------------------------
(* Claims about empty channel records, checked under SpecFlood.              *)

\* C27: a drain leaves every channel record in place, also one it has
\* emptied; a cleanup pass deletes the records that are empty when it runs
\* and no other, so an emptied record that received a message in between
\* stays.
C27_EmptyChannelsCollected ==
    /\ (last.op = "drain" /\ last.status = 200)
          => DOMAIN channels = DOMAIN last.pre
    /\ last.op = "cleanupSignalingChannels"
          => DOMAIN channels = { c \in DOMAIN last.pre : Len(last.pre[c].messages) > 0 }

\* C27 witness: a cleanup pass has deleted a record that a drain had emptied
C27_Witness ==
    /\ last.op = "cleanupSignalingChannels"
    /\ \E c \in DOMAIN last.pre :
          /\ Len(last.pre[c].messages) = 0
          /\ c \notin DOMAIN channels

----------------------------------------------------------------------------
(* The elector when a store operation raises.                                *)

\* BackgroundJobs.ensureCoordinators when the first store operation of the
\* turn of network `failing` (countDocuments, line 104) rejects: the networks
\* in `done` had their turn before it, in the order Device.distinct returned
\* them, and the rejection leaves the loop for the catch block of line 199,
\* which logs it.
ensureCoordinatorsFailing(failing, done) ==
    /\ failing \in OnlineNetworks(devices)
    /\ done \subseteq OnlineNetworks(devices) \ { failing }
    /\ devices' \in ElectNetworks({ devices }, done, minCoordinators)
    /\ last' = [ op |-> "ensureCoordinatorsFailed", pre |-> devices, failing |-> failing ]
    /\ UNCHANGED << now, channels, activeConnections, sockets, minCoordinators, History,
                    draining, cleaning, backgroundJobs >>

----------------------------------------------------------------------------
(* SpecElectorFailure: devices of net1 and net2 announce, and elector passes *)
(* run, some of them against a store that raises an error for one network.   *)

MaxFailureTicks == 2

NextElectorFailure ==
    \/ \E d \in { PeerA, PeerB, PeerC } :
          Announce(OwnerOf[d], HomeOf[d], d, "ws://host", AnnouncedCapabilities[d])
    \/ ticks < MaxFailureTicks /\ Tick(1)
    \/ ensureCoordinators
    \/ \E failing \in Networks, done \in SUBSET Networks :
          ensureCoordinatorsFailing(failing, done)

SpecElectorFailure == Init /\ [][NextElectorFailure]_vars

\* the records of network networkId in store
RecordsOf(store, networkId) ==
    { store[d] : d \in { x \in DOMAIN store : store[x].networkId = networkId } }

\* C28: when the processing of one network fails during an elector pass,
\* every other network with online devices still has its turn in that pass:
\* its records are what a turn of the elector makes of them.
C28_OtherNetworksStillProcessed ==
    last.op = "ensureCoordinatorsFailed" =>
        \A n \in OnlineNetworks(last.pre) \ { last.failing } :
            \E s \in ElectNetwork(last.pre, n, minCoordinators) :
                RecordsOf(devices, n) = RecordsOf(s, n)

----------------------------------------------------------------------------
(* Claims about the result of a cleanup pass, checked under SpecFlood.       *)

\* C29: after a signaling cleanup pass every channel holds at most 10
\* messages; a channel that held more holds its 10 most recent, in their
\* order, and a channel that held between 1 and 10 is unchanged.
C29_AtMostTenAfterCleanup ==
    last.op = "cleanupSignalingChannels" =>
        /\ \A c \in DOMAIN channels : Len(channels[c].messages) <= CleanupKeep
        /\ \A c \in DOMAIN last.pre :
              LET held == last.pre[c].messages
              IN  /\ (Len(held) >= 1 /\ Len(held) <= CleanupKeep)
                        => (c \in DOMAIN channels /\ channels[c] = last.pre[c])
                  /\ Len(held) > CleanupKeep
                        => /\ c \in DOMAIN channels
                           /\ channels[c].messages =
                                 SubSeq(held, Len(held) - CleanupKeep + 1, Len(held))

\* C29 witness: a cleanup pass found a channel with one message more than it
\* keeps and dropped the oldest
C29_Witness ==
    /\ last.op = "cleanupSignalingChannels"
    /\ \E c \in DOMAIN last.pre :
          /\ Len(last.pre[c].messages) = CleanupKeep + 1
          /\ c \in DOMAIN channels
          /\ channels[c].messages = Tail(last.pre[c].messages)

----------------------------------------------------------------------------
(* Claims about the coordinator tag, checked under SpecElector.              *)

\* C30: in every reachable state every presence record is a coordinator
\* exactly when its capability set holds the coordinator tag.
C30_CoordinatorIffTag ==
    \A d \in DOMAIN devices :
        devices[d].isCoordinator <=> "coordinator" \in devices[d].capabilities

\* C30 witness: an elector pass has demoted a device that an earlier pass had
\* promoted in an emergency
C30_Witness ==
    /\ ElectorRan
    /\ \E d \in DOMAIN devices :
          /\ d \in DOMAIN last.pre
          /\ last.pre[d].isCoordinator
          /\ ~devices[d].isCoordinator
          /\ "relay" \in devices[d].capabilities
          /\ "relay" \notin AnnouncedCapabilities[d]

----------------------------------------------------------------------------
(* SpecSharedKey: four devices of net1 whose identifiers contain             *)
(* underscores announce, connect, exchange messages and drain.               *)

MaxSharedFrames == 2
MaxSharedSockets == 2

\* peer_a_peer_b and peer_b_peer_c: valid device identifiers
PeerAB == PeerA \o << "_" >> \o PeerB
PeerBC == PeerB \o << "_" >> \o PeerC

SharedIds == { PeerA, PeerBC, PeerAB, PeerC }

InitSharedKey ==
    /\ now = 0
    /\ devices = << >>
    /\ channels = << >>
    /\ activeConnections = << >>
    /\ sockets = << >>
    /\ minCoordinators = 2
    /\ last = NoOp
    /\ expected = [ d \in SharedIds |-> << >> ]
    /\ trimmed = {}
    /\ expired = {}
    /\ sends = 0
    /\ ticks = 0
    /\ draining = Idle
    /\ cleaning = Idle
    /\ backgroundJobs = Constructed

NextSharedKey ==
    \/ \E d \in SharedIds : Announce("bob", "net1", d, "ws://host", {})
    \/ \E d \in SharedIds :
          /\ Len(sockets) < MaxSharedSockets
          /\ d \notin DOMAIN activeConnections
          /\ handleConnection(<< "signaling", d >>, GoodToken("bob"))
    \/ \E ws \in 1..Len(sockets), to \in SharedIds :
          /\ sends < MaxSharedFrames
          /\ to # sockets[ws].deviceId
          /\ handleSignalingMessage(ws, [ type |-> "offer", toPeerId |-> to, data |-> sends + 1 ])
    \/ \E d \in SharedIds : last.op # "drain" /\ DrainMessages("bob", d)

SpecSharedKey == InitSharedKey /\ [][NextSharedKey]_vars

\* C31: in every reachable state every message held in a channel record has
\* its sender and its destination among the participants of that record.
C31_MessagesAmongParticipants ==
    \A c \in DOMAIN channels :
        \A i \in 1..Len(channels[c].messages) :
            /\ \E p \in 1..Len(channels[c].participants) :
                  channels[c].participants[p] = channels[c].messages[i].from
            /\ \E p \in 1..Len(channels[c].participants) :
                  channels[c].participants[p] = channels[c].messages[i].to

----------------------------------------------------------------------------
(* Claims about forwards and drains together, checked under SpecDrain.       *)

\* C32: each accepted message is handed to its destination at most once: a
\* message a drain returns has not been forwarded over a connection of the
\* draining device.
C32_HandedAtMostOnce ==
    (last.op = "drain" /\ last.status = 200) =>
        \A i \in 1..Len(last.messages) :
            ~ \E ws \in 1..Len(sockets) :
                /\ sockets[ws].deviceId = last.deviceId
                /\ \E k \in 1..Len(sockets[ws].outbox) :
                      /\ sockets[ws].outbox[k].kind = "signal"
                      /\ sockets[ws].outbox[k].fromPeerId = last.messages[i].from
                      /\ sockets[ws].outbox[k].data = last.messages[i].data

----------------------------------------------------------------------------
(* The signaling cleanup pass, store operation by store operation.  Between  *)
(* its awaits relay messages are served.                                     *)

\* cleanupSignalingChannels up to the result of deleteMany (lines 210-215)
CleanupDelete ==
    /\ cleaning = Idle
    /\ backgroundJobs = Constructed
    /\ channels' = Remove(channels, EmptyChannels(channels))
    /\ cleaning' = [ stage |-> "deleted" ]
    /\ last' = [ op |-> "cleanupDelete" ]
    /\ UNCHANGED << now, devices, activeConnections, sockets, minCoordinators, History,
                    draining, backgroundJobs >>

\* SignalingChannel.find({ 'messages.10': { $exists: true } }) (lines 222-224):
\* the documents read stay in the memory of the pass
CleanupFind ==
    /\ cleaning.stage = "deleted"
    /\ \E order \in Orderings({ c \in DOMAIN channels : Len(channels[c].messages) > CleanupKeep }) :
          cleaning' = [ stage |-> "found",
                        found |-> [ c \in { x \in DOMAIN channels :
                                              Len(channels[x].messages) > CleanupKeep } |->
                                      channels[c] ],
                        todo |-> order ]
    /\ last' = [ op |-> "cleanupFind" ]
    /\ UNCHANGED << now, devices, channels, activeConnections, sockets, minCoordinators,
                    History, draining, backgroundJobs >>

\* channel.messages = channel.messages.slice(-10); await channel.save() on the
\* document that was read (lines 229-230): the save hook runs, then the
\* update $sets the whole array of the document in memory
SavedMessages(read) == preSave(LastN(read, CleanupKeep))

\* one turn of the loop of lines 227-233, for the next document that was read
CleanupSave ==
    /\ cleaning.stage = "found"
    /\ cleaning.todo # << >>
    /\ Head(cleaning.todo) \in DOMAIN channels
    /\ channels' = [ channels EXCEPT ![Head(cleaning.todo)].messages =
                        SavedMessages(cleaning.found[Head(cleaning.todo)].messages) ]
    /\ trimmed' = trimmed \cup Dropped(channels, channels')
    /\ cleaning' = [ cleaning EXCEPT !.todo = Tail(@) ]
    /\ last' = [ op |-> "cleanupSave", channelId |-> Head(cleaning.todo) ]
    /\ UNCHANGED << now, devices, activeConnections, sockets, minCoordinators,
                    expected, expired, sends, ticks, draining, backgroundJobs >>

\* the loop has ended (lines 235-237)
CleanupDone ==
    /\ cleaning.stage = "found"
    /\ cleaning.todo = << >>
    /\ cleaning' = Idle
    /\ last' = [ op |-> "cleanupDone" ]
    /\ UNCHANGED << now, devices, channels, activeConnections, sockets, minCoordinators,
                    History, draining, backgroundJobs >>

----------------------------------------------------------------------------
(* SpecConcurrentCleanup: peer_a sends to peer_b while the signaling cleanup *)
(* pass runs.                                                                *)

MaxCleanupFrames == 13

NextConcurrentCleanup ==
    \/ \E d \in { PeerA, PeerB } : Announce(OwnerOf[d], HomeOf[d], d, "ws://host", {})
    \/ /\ PeerA \notin DOMAIN activeConnections
       /\ handleConnection(<< "signaling", PeerA >>, GoodToken("alice"))
    \/ /\ sends < MaxCleanupFrames
       /\ BothAnnounced
       /\ \E ws \in 1..Len(sockets) :
             handleSignalingMessage(ws, [ type |-> "offer", toPeerId |-> PeerB, data |-> sends + 1 ])
    \/ CleanupDelete
    \/ CleanupFind
    \/ CleanupSave
    \/ CleanupDone

SpecConcurrentCleanup == Init /\ [][NextConcurrentCleanup]_vars

\* C33: a message appended to a channel between the cleanup pass reading the
\* channel and saving it is still in the channel after the save.
C33_AppendSurvivesCleanup ==
    [][ (cleaning.stage = "found" /\ cleaning.todo # << >> /\ cleaning'.stage = "found"
            /\ cleaning'.todo # cleaning.todo)
        => LET c == Head(cleaning.todo)
           IN \A i \in 1..Len(channels[c].messages) :
                 (\A j \in 1..Len(cleaning.found[c].messages) :
                      cleaning.found[c].messages[j] # channels[c].messages[i])
                 => \E k \in 1..Len(channels'[c].messages) :
                       channels'[c].messages[k] = channels[c].messages[i] ]_vars

----------------------------------------------------------------------------
(* Claims about the owner of a presence record, checked under                *)
(* SpecDrainAccess.                                                          *)

\* C34: no step changes the owner of an existing presence record: an
\* announcement for a device identifier whose record is owned by another
\* user leaves the record's userId as it was.
C34_OwnerNeverChanges ==
    [][ \A d \in DOMAIN devices :
           d \in DOMAIN devices' => devices'[d].userId = devices[d].userId ]_vars

----------------------------------------------------------------------------
(* SpecSender: peer_a of alice and peer_b of bob, both of net1; alice and    *)
(* bob open signaling connections under either identifier and send frames    *)
(* whose body names a sender of its own.                                     *)

MaxSenderSockets == 2
MaxSenderFrames == 2

\* the requests clients open a signaling connection with
SenderRequests ==
    { << << "signaling", PeerA >>, GoodToken("alice") >>,
      << << "signaling", PeerA >>, GoodToken("bob") >>,
      << << "signaling", PeerB >>, GoodToken("bob") >> }

NextSender ==
    \/ \E d \in { PeerA, PeerB } : Announce(OwnerOf[d], HomeOf[d], d, "ws://host", {})
    \/ \E r \in SenderRequests :
          /\ Len(sockets) < MaxSenderSockets
          /\ handleConnection(r[1], r[2])
    \/ \E ws \in 1..Len(sockets), to \in { PeerA, PeerB }, named \in { PeerA, PeerB } :
          /\ sends < MaxSenderFrames
          /\ handleSignalingMessage(ws, [ type |-> "offer", toPeerId |-> to, data |-> sends + 1,
                                          from |-> named, fromPeerId |-> named ])

SpecSender == Init /\ [][NextSender]_vars

\* C35: a connection is registered under a device identifier, and a message
\* is accepted from it, only when the user its token verified is the owner of
\* the presence record of that device.
C35_ConnectionOfOwnerOnly ==
    /\ (last.op = "connect" /\ sockets[last.socket].handlers) =>
          /\ sockets[last.socket].deviceId \in DOMAIN devices
          /\ devices[sockets[last.socket].deviceId].userId = sockets[last.socket].userId
    /\ (last.op = "message" /\ last.outcome = "stored") =>
          devices[sockets[last.socket].deviceId].userId = sockets[last.socket].userId

\* the device identifier in the path of the request socket ws was opened with
EstablishedAs(ws) == sockets[ws].request.urlPath[2]

\* C36: the sender recorded in a stored message and the sender tag of a
\* forwarded message are the device identifier under which the sending
\* connection was established, whatever the message body names as sender.
C36_SenderFromConnection ==
    (last.op = "message" /\ last.outcome = "stored") =>
        /\ \E c \in DOMAIN channels :
              /\ channels[c].messages # << >>
              /\ channels[c].messages[Len(channels[c].messages)].data = last.data
        /\ \A c \in DOMAIN channels : \A i \in 1..Len(channels[c].messages) :
              channels[c].messages[i].data = last.data
                  => channels[c].messages[i].from = EstablishedAs(last.socket)
        /\ last.forwardedTo # 0 =>
              LET frame == sockets[last.forwardedTo].outbox[Len(sockets[last.forwardedTo].outbox)]
              IN  /\ frame.kind = "signal"
                  /\ frame.data = last.data
                  /\ frame.fromPeerId = EstablishedAs(last.socket)

\* C36 witness: a message whose body names another device as its sender was
\* stored and forwarded
C36_Witness ==
    /\ last.op = "message"
    /\ last.outcome = "stored"
    /\ last.forwardedTo # 0
    /\ last.body.from # EstablishedAs(last.socket)
    /\ last.body.fromPeerId # EstablishedAs(last.socket)

----------------------------------------------------------------------------
(* Claims about the device findPeer reports, checked under SpecFallback.     *)

\* C37: a device that findPeer reports as online has a lastSeen within the
\* 10-minute online window, the window of the peer list.
C37_FoundPeerWithinWindow ==
    (last.op = "findPeer" /\ last.status = 200 /\ last.online) =>
        /\ last.device \in DOMAIN devices
        /\ devices[last.device].lastSeen >= now - OnlineWindow

----------------------------------------------------------------------------
(* SpecElectorTwice: peer_d, peer_e and peer_f of net1 have announced as     *)
(* coordinators; the other devices of net1 and peer_c of net2 announce, and  *)
(* the elector runs, also twice in a row, under two settings of              *)
(* MIN_COORDINATORS_PER_NETWORK that do not exceed maxCoordinators.          *)

\* the settings of MIN_COORDINATORS_PER_NETWORK: the default, and maxCoordinators
QuietMinSettings == { 2, maxCoordinators }

Founders == { PeerD, PeerE, PeerF }

InitElectorTwice ==
    /\ now = 0
    /\ devices = [ d \in Founders |->
                     AnnouncedDevice(d, OwnerOf[d], HomeOf[d], "ws://host",
                                     AnnouncedCapabilities[d], 0) ]
    /\ channels = << >>
    /\ activeConnections = << >>
    /\ sockets = << >>
    /\ minCoordinators \in QuietMinSettings
    /\ last = NoOp
    /\ expected = [ d \in Peers |-> << >> ]
    /\ trimmed = {}
    /\ expired = {}
    /\ sends = 0
    /\ ticks = 0
    /\ draining = Idle
    /\ cleaning = Idle
    /\ backgroundJobs = Constructed

\* BackgroundJobs.ensureCoordinators, run without interleaving, when the
\* operation before it was an elector pass as well; last.before is the store
\* that earlier pass started from
ensureCoordinatorsAgain ==
    /\ last.op \in { "ensureCoordinators", "ensureCoordinatorsAgain" }
    /\ devices' \in ElectNetworks({ devices }, OnlineNetworks(devices), minCoordinators)
    /\ last' = [ op |-> "ensureCoordinatorsAgain", pre |-> devices, before |-> last.pre ]
    /\ UNCHANGED << now, channels, activeConnections, sockets, minCoordinators, History,
                    draining, cleaning, backgroundJobs >>

NextElectorTwice ==
    \/ \E d \in Peers \ Founders :
          Announce(OwnerOf[d], HomeOf[d], d, "ws://host", AnnouncedCapabilities[d])
    \/ /\ last.op \notin { "ensureCoordinators", "ensureCoordinatorsAgain" }
       /\ ensureCoordinators
    \/ ensureCoordinatorsAgain

SpecElectorTwice == InitElectorTwice /\ [][NextElectorTwice]_vars

\* C38: with minCoordinators <= maxCoordinators, an elector pass that
\* immediately follows another elector pass changes no presence record.
C38_SecondPassChangesNothing ==
    (last.op = "ensureCoordinatorsAgain" /\ minCoordinators <= maxCoordinators) =>
        devices = last.pre

\* C38 witness: the second of two passes in a row has run, after a first pass
\* that demoted two of seven coordinators, two of the seven having been
\* promoted by a pass before
C38_Witness ==
    /\ last.op = "ensureCoordinatorsAgain"
    /\ minCoordinators <= maxCoordinators
    /\ Cardinality(OnlineCoordinators(last.before, "net1")) = maxCoordinators + 2
    /\ Cardinality(OnlineCoordinators(last.pre, "net1")) = maxCoordinators
    /\ \E d \in DOMAIN last.before :
          /\ last.before[d].isCoordinator
          /\ "coordinator" \notin AnnouncedCapabilities[d]

\* an elector pass, the first or a later one of a row, has just finished
PassRan == last.op \in { "ensureCoordinators", "ensureCoordinatorsAgain" }

\* C39: an elector pass changes no record of a network whose count of online
\* coordinators is between minCoordinators and maxCoordinators inclusive, and
\* the turn of a network changes no record of any other network.
C39_ElectorFrame ==
    /\ PassRan =>
          \A d \in DOMAIN last.pre :
              LET count == Cardinality({ x \in DOMAIN last.pre :
                                           /\ last.pre[x].networkId = last.pre[d].networkId
                                           /\ last.pre[x].isCoordinator
                                           /\ last.pre[x].isOnline })
              IN  (count >= minCoordinators /\ count <= maxCoordinators)
                      => (d \in DOMAIN devices /\ devices[d] = last.pre[d])
    /\ \A n \in Networks : \A s \in ElectNetwork(devices, n, minCoordinators) :
          /\ DOMAIN s = DOMAIN devices
          /\ \A d \in DOMAIN devices : devices[d].networkId # n => s[d] = devices[d]

\* C39 witness: a pass promoted the device of net2 while net1 had between
\* minCoordinators and maxCoordinators coordinators and an online device that
\* advertises relay and is no coordinator
C39_Witness ==
    /\ PassRan
    /\ PeerC \in DOMAIN last.pre
    /\ ~last.pre[PeerC].isCoordinator
    /\ devices[PeerC].isCoordinator
    /\ Cardinality(OnlineCoordinators(last.pre, "net1")) >= minCoordinators
    /\ Cardinality(OnlineCoordinators(last.pre, "net1")) <= maxCoordinators
    /\ PeerA \in DOMAIN devices
    /\ ~devices[PeerA].isCoordinator

----------------------------------------------------------------------------
(* The timers of the background jobs.                                        *)

\* BackgroundJobs.start()
start ==
    /\ backgroundJobs' = Started(backgroundJobs)
    /\ last' = [ op |-> "start" ]
    /\ UNCHANGED << now, devices, channels, activeConnections, sockets, minCoordinators,
                    History, draining, cleaning >>

\* BackgroundJobs.stop(): clearInterval on every handle that is not null,
\* and the field set to null
stop ==
    /\ backgroundJobs' =
          [ backgroundJobs EXCEPT
              !.presenceCleanupInterval = 0,
              !.coordinatorCheckInterval = 0,
              !.signalingCleanupInterval = 0,
              !.active = { t \in @ : t.id \notin { backgroundJobs.presenceCleanupInterval,
                                                   backgroundJobs.coordinatorCheckInterval,
                                                   backgroundJobs.signalingCleanupInterval } } ]
    /\ last' = [ op |-> "stop" ]
    /\ UNCHANGED << now, devices, channels, activeConnections, sockets, minCoordinators,
                    History, draining, cleaning >>

\* the interval of timer t has elapsed: the runtime calls its callback
TimerFires(t) ==
    /\ t \in backgroundJobs.active
    /\ \/ t.job = "cleanupStalePresence" /\ cleanupStalePresence
       \/ t.job = "ensureCoordinators" /\ ensureCoordinators
       \/ t.job = "cleanupSignalingChannels" /\ cleanupSignalingChannels

----------------------------------------------------------------------------
(* SpecTimers: the server constructs the background jobs; start() and stop() *)
(* are called in any order, timers fire, devices announce and time passes.   *)

MaxTimers == 9
MaxTimerTicks == 1

NextTimers ==
    \/ \E d \in { PeerA, PeerB } :
          Announce(OwnerOf[d], HomeOf[d], d, "ws://host", AnnouncedCapabilities[d])
    \/ ticks < MaxTimerTicks /\ Tick(OnlineWindow + 1)
    \/ backgroundJobs.created < MaxTimers /\ start
    \/ stop
    \/ \E t \in backgroundJobs.active : TimerFires(t)

SpecTimers == Init /\ [][NextTimers]_vars

\* C40: each background job has at most one active timer, and once stop()
\* has returned no job callback starts until start() is called again.
C40_OneTimerPerJob ==
    /\ \A job \in { "cleanupStalePresence", "ensureCoordinators", "cleanupSignalingChannels" } :
          Cardinality({ t \in backgroundJobs.active : t.job = job }) <= 1
    /\ ( /\ backgroundJobs.presenceCleanupInterval = 0
         /\ backgroundJobs.coordinatorCheckInterval = 0
         /\ backgroundJobs.signalingCleanupInterval = 0 )
          => last.op \notin { "cleanupStalePresence", "ensureCoordinators",
                              "cleanupSignalingChannels" }

====
